---- MODULE Spec2Model ----
(***************************************************************************)
(* Online Clipboard: the clipboard CRUD service and its cached variant,    *)
(* the TTL cache, the retention sweep (cleanup), the scheduled cleanup and *)
(* the code validation, modelled from the TypeScript sources.              *)
(*                                                                         *)
(* Strings are sequences of UTF-16 code units (what String.length and the  *)
(* regular expressions of the source operate on).  Clipboard content is    *)
(* [ch, n]: the character ch repeated n times ('a'.repeat(n) of the tests),*)
(* its length is n.  Time is Date.now() in seconds: the durations of the    *)
(* sources, given in milliseconds, are divided by 1000.                     *)
(***************************************************************************)
EXTENDS Integers, Sequences, FiniteSets, TLC

(***************************************************************************)
(* Bounds of the model                                                     *)
(***************************************************************************)
Procs == {1, 2}       \* concurrent requests / service calls
MaxCalls == 3         \* calls started in one behaviour of the service specification
MaxClockSteps == 1    \* clock advances in one behaviour of the service specification
MaxTail == 2          \* explicit code units following the padding of a code input
MaxTicks == 2         \* clock advances explored in the cache specification
CacheMaxSize == 2     \* the maxSize option of the CacheService instance under test
MaxIters == 5         \* batch fetches of one cleanup phase
MaxRows == 3          \* rows of the table a cleanup run starts on
MaxExecs == 2         \* cleanup executions whose log entries are kept at one time
SweepCalls == 2       \* service calls started while a cleanup run is going on
MaxEdits == 3         \* user actions on the editor in one behaviour
MaxDebCalls == 3      \* calls of the debounced function in one behaviour
MaxDebTime == 8       \* the clock advances between calls up to this time
MaxOtherWrites == 4   \* writes of other clients while an updateClipboard is retried

(***************************************************************************)
(* Program constants                                                       *)
(***************************************************************************)
MaxCodeLength == 50
ClassDefaultTTL == 300
MaxContentSize == 1048576
RetryAttempts == 3
ClipboardCacheTTL == 120
ClipboardCacheMaxSize == 500
CodeExistsCacheTTL == 30
CodeExistsCacheMaxSize == 1000
SecPerDay == 86400
DefaultMaxAge == 30
DefaultMaxTotalSize == 104857600
DefaultMaxCount == 10000
DefaultBatchSize == 100
ScheduledBatchSize == 100
MaxLogs == 100
GenMaxRetries == 10

VARIABLES
    store,            \* the clipboards table: a set of rows
    nextId,           \* the next surrogate key
    now,              \* Date.now()
    clipboardCache,   \* cache-service clipboardCache
    codeExistsCache,  \* cache-service codeExistsCache
    proc,             \* the requests / service calls in flight
    calls,            \* number of calls started
    clockSteps,       \* number of clock advances
    cl,               \* the cleanup runs (CleanupServiceImpl.cleanup) in progress
    sched,            \* ScheduledCleanupImpl: intervalId, isRunning, logs
    exec,             \* the executions of scheduled / manual cleanup in progress
    gcache,           \* a CacheService instance on its own
    gret,             \* the last call on gcache and what it returned
    codeIn,           \* the argument of validateCodeFormat
    codeRes,          \* its result
    ed,               \* the clipboard page and its TextEditor component
    db                \* a debounced function: the closure of debounce(func, delay, options)

vars == <<store, nextId, now, clipboardCache, codeExistsCache, proc, calls, clockSteps,
          cl, sched, exec, gcache, gret, codeIn, codeRes, ed, db>>

storeVars == <<store, nextId>>
cacheVars == <<clipboardCache, codeExistsCache>>
cleanupVars == <<cl>>
schedVars == <<sched, exec>>
unitVars == <<gcache, gret, codeIn, codeRes, ed, db>>
svcVars == <<clipboardCache, codeExistsCache, proc, calls>>

Rep(u, n) == [i \in 1..n |-> u]

(***************************************************************************)
(* code-utils: validateCodeFormat                                          *)
(***************************************************************************)
\* a character class whose first range ends at U+9FFF, the end of the CJK block
InCodeClassWholeBlock(u) ==
    \/ (u >= 19968 /\ u <= 40959)
    \/ (u >= 97 /\ u <= 122)
    \/ (u >= 65 /\ u <= 90)
    \/ (u >= 48 /\ u <= 57)
    \/ u = 45
    \/ u = 95
    \/ u = 46

\* the character class [一-龥a-zA-Z0-9\-_\.]
InCodeClass(u) ==
    \/ (u >= 19968 /\ u <= 40869)
    \/ (u >= 97 /\ u <= 122)
    \/ (u >= 65 /\ u <= 90)
    \/ (u >= 48 /\ u <= 57)
    \/ u = 45
    \/ u = 95
    \/ u = 46

RECURSIVE ClassRunFrom(_, _)
\* the greedy run [class]+ starting at position i: the position after it
ClassRunFrom(s, i) ==
    IF i <= Len(s) /\ InCodeClass(s[i]) THEN ClassRunFrom(s, i + 1) ELSE i

\* /^[class]+$/.test(s): at least one unit, and the run ends at the end of input
validCodeRegexTest(s) ==
    LET e == ClassRunFrom(s, 1) IN e > 1 /\ e = Len(s) + 1

validateCodeFormat(code) ==
    IF code = << >>
    THEN [isValid |-> FALSE, error |-> "empty"]
    ELSE IF Len(code) < 1 \/ Len(code) > MaxCodeLength
    THEN [isValid |-> FALSE, error |-> "length"]
    ELSE IF ~validCodeRegexTest(code)
    THEN [isValid |-> FALSE, error |-> "charset"]
    ELSE [isValid |-> TRUE, error |-> "none"]

(***************************************************************************)
(* cache-service: CacheService                                             *)
(* A cache is the Map as a sequence of entries in insertion order.         *)
(* An optional argument is << >> (absent) or <<v>>.                        *)
(***************************************************************************)
CacheKeys(c) == {c[i].key : i \in 1..Len(c)}

CacheIndex(c, key) == CHOOSE i \in 1..Len(c) : c[i].key = key

RemoveAt(c, i) == [j \in 1..(Len(c) - 1) |-> IF j < i THEN c[j] ELSE c[j + 1]]

\* Map.delete
MapDelete(c, key) ==
    IF key \in CacheKeys(c) THEN RemoveAt(c, CacheIndex(c, key)) ELSE c

\* Map.set: an existing key keeps its position, a new key goes last
MapSet(c, key, entry) ==
    IF key \in CacheKeys(c)
    THEN [c EXCEPT ![CacheIndex(c, key)] = entry]
    ELSE Append(c, entry)

\* ttl || this.defaultTTL
EffectiveTTL(ttlArg, defaultTTL) ==
    IF ttlArg # << >> /\ ttlArg[1] # 0 THEN ttlArg[1] ELSE defaultTTL

CacheSet(c, key, data, ttlArg, t, defaultTTL, maxSize) ==
    LET evicted == IF Len(c) >= maxSize
                   THEN (IF c[1].key # << >> THEN Tail(c) ELSE c)
                   ELSE c
    IN MapSet(evicted, key,
              [key |-> key, data |-> data, timestamp |-> t,
               ttl |-> EffectiveTTL(ttlArg, defaultTTL)])

CacheExpired(entry, t) == t - entry.timestamp > entry.ttl

\* get: <<cache afterwards, << >> for null or <<data>>>>
CacheGet(c, key, t) ==
    IF key \notin CacheKeys(c)
    THEN <<c, << >>>>
    ELSE LET entry == c[CacheIndex(c, key)]
         IN IF CacheExpired(entry, t)
            THEN <<MapDelete(c, key), << >>>>
            ELSE <<c, <<entry.data>>>>

\* has: <<cache afterwards, boolean>>
CacheHas(c, key, t) ==
    LET g == CacheGet(c, key, t) IN <<g[1], g[2] # << >>>>

\* the periodic cleanup of expired entries
CacheCleanup(c, t) == SelectSeq(c, LAMBDA e : ~CacheExpired(e, t))

\* new CacheService(options): an instance is its two settings and its Map
NewCache(defaultTTLOpt, maxSizeOpt, classMaxSize) ==
    [defaultTTL |-> EffectiveTTL(defaultTTLOpt, ClassDefaultTTL),
     maxSize |-> IF maxSizeOpt # << >> /\ maxSizeOpt[1] # 0 THEN maxSizeOpt[1]
                 ELSE classMaxSize,
     entries |-> << >>]

NoCache == [defaultTTL |-> 0, maxSize |-> 0, entries |-> << >>]
NoCall == [op |-> "none", key |-> << >>, res |-> << >>, at |-> 0]

\* validateCodeFormat has not been called
NoResult == << >>

(***************************************************************************)
(* Content and the clipboards table                                        *)
(***************************************************************************)
EmptyContent == [ch |-> "", n |-> 0]
Text(ch, n) == IF n = 0 THEN EmptyContent ELSE [ch |-> ch, n |-> n]
ContentLength(c) == c.n

\* rows with the given code (the unique index makes this at most one)
RowsOf(code) == {r \in store : r.code = code}

NoRow == << >>

\* a table without the unique index on code: create never fails
NoUniqueIndex(code) == FALSE

\* prisma.clipboard.create: P2002 when the unique index on code rejects the row
DbCreateFails(code) == RowsOf(code) # {}

NewRow(code, content) ==
    [id |-> nextId, code |-> code, content |-> content,
     updatedAt |-> now, lastAccessed |-> now]

\* an update whose data also resets the content
TouchedRowResettingContent(r) ==
    [r EXCEPT !.content = EmptyContent, !.lastAccessed = now, !.updatedAt = now]

\* prisma.clipboard.update({where: {code}, data: {lastAccessed: new Date()}})
TouchedRow(r) == [r EXCEPT !.lastAccessed = now, !.updatedAt = now]

\* prisma.clipboard.update / upsert with data {content, lastAccessed}
WrittenRow(r, content) ==
    [r EXCEPT !.content = content, !.lastAccessed = now, !.updatedAt = now]

\* a validateContent that lets every content pass
ContentNeverTooLarge(content) == FALSE

\* ClipboardServiceImpl.validateContent
ContentTooLarge(content) == ContentLength(content) > MaxContentSize

(***************************************************************************)
(* api-error-handler: RequestValidator and ApiErrorHandler.handleError     *)
(* A request value is [t, len, blank]: its JavaScript type, its length and *)
(* whether trim() leaves nothing.                                          *)
(***************************************************************************)
IsSpaceUnit(u) == u \in {9, 10, 11, 12, 13, 32, 160}

CodeValue(code) ==
    [t |-> "string", len |-> Len(code),
     blank |-> \A i \in 1..Len(code) : IsSpaceUnit(code[i])]

ContentValue(c) ==
    [t |-> "string", len |-> ContentLength(c), blank |-> (c.n = 0 \/ c.ch = " ")]

UndefinedValue == [t |-> "undefined", len |-> 0, blank |-> TRUE]
\* the body is the JSON value null: reading body.content throws a TypeError
NullBody == [t |-> "null body", len |-> 0, blank |-> TRUE]
NumberValue == [t |-> "number", len |-> 0, blank |-> FALSE]

\* RequestValidator.validateString: TRUE when it throws a validation error
validateStringThrows(value, required, minLength, maxLength) ==
    \/ required /\ value.t = "undefined"
    \/ value.t \notin {"undefined", "string"}
    \/ required /\ value.blank
    \/ minLength # << >> /\ value.len < minLength[1]
    \/ maxLength # << >> /\ value.len > maxLength[1]

\* RequestValidator.validateContentSize with its default maxSize
validateContentSizeThrows(len) == len > MaxContentSize

NoErr == [by |-> "none", code |-> "none"]
ApiErr(code) == [by |-> "api", code |-> code]
SvcErr(code) == [by |-> "service", code |-> code]
PrismaErr(code) == [by |-> "prisma", code |-> code]
\* an Error that is neither an ApiErrorClass nor a Prisma error
JsErr(code) == [by |-> "js", code |-> code]

\* the status of the response ApiErrorHandler.handleError builds for a thrown error
HandleErrorStatus(e) ==
    IF e.by = "api"
    THEN (CASE e.code = "VALIDATION_ERROR" -> 400
            [] e.code = "INVALID_REQUEST" -> 400
            [] e.code = "CONTENT_TOO_LARGE" -> 413
            [] OTHER -> 500)
    ELSE IF e.by = "prisma"
    THEN (CASE e.code = "P2002" -> 409
            [] e.code = "P2025" -> 404
            [] e.code = "P2003" -> 400
            [] e.code = "P2034" -> 409
            [] OTHER -> 500)
    ELSE 500

(***************************************************************************)
(* Requests and service calls.  at is the time the call was made, wrote     *)
(* whether its store call has written, missed whether its last existence    *)
(* check was answered "no" while the store held a record of the code.       *)
(***************************************************************************)
IdleProc ==
    [pc |-> "idle", op |-> "none", method |-> "none", at |-> 0,
     code |-> << >>, content |-> EmptyContent, version |-> << >>,
     existing |-> NoRow, attempt |-> 0, retried |-> FALSE, wrote |-> FALSE,
     missed |-> FALSE,
     ret |-> NoRow,
     status |-> "none", err |-> NoErr, http |-> 0]

\* the call returns value ret (to the route handler, which answers 200); its
\* locals are gone
Returned(pr, ret, nextpc) ==
    [pr EXCEPT !.pc = nextpc, !.status = "ok", !.ret = <<ret>>,
               !.existing = NoRow, !.attempt = 0,
               !.http = IF pr.method = "none" THEN 0 ELSE 200]

\* the call throws e (the route handler answers with handleError's status)
Thrown(pr, e) ==
    [pr EXCEPT !.pc = "done", !.status = "error", !.err = e,
               !.existing = NoRow, !.attempt = 0,
               !.http = IF pr.method = "none" THEN 0 ELSE HandleErrorStatus(e)]

ReplaceRow(r, r2) == (store \ {r}) \cup {r2}

\* no clipboard page is open
NoEditor == [mounted |-> FALSE]

\* no debounced function has been made
NoDebounce == [made |-> FALSE]

\* inputs of the service specification
SvcCodes == {<<97>>, <<98>>}
\* the code the calls are about where a specification takes one code only
SweepCode == <<97>>
\* a well-formed code, a code outside the character class ('!'), and the codes the
\* route refuses: empty, blank, too long
HttpCodes == {<<97>>, <<33>>, << >>, <<32>>, Rep(97, MaxCodeLength + 1)}
SvcContents == {Text("a", 1), Text("b", 2), Text("a", MaxContentSize + 1)}
HttpBodies ==
    {[json |-> FALSE, content |-> UndefinedValue, text |-> EmptyContent],
     [json |-> TRUE, content |-> UndefinedValue, text |-> EmptyContent],
     [json |-> TRUE, content |-> NumberValue, text |-> EmptyContent],
     [json |-> TRUE, content |-> NullBody, text |-> EmptyContent]}
    \cup {[json |-> TRUE, content |-> ContentValue(c), text |-> c] :
             c \in {Text("a", 1), Text("a", MaxContentSize + 1),
                     EmptyContent, Text(" ", 1), Text(" ", MaxContentSize + 1)}}
TickSteps == {1, ClipboardCacheTTL + 1}

CanCall(p) == proc[p].pc = "idle" /\ calls < MaxCalls

(***************************************************************************)
(* getOrCreateClipboard (ClipboardServiceImpl and OptimizedClipboardService)*)
(***************************************************************************)
\* the synchronous start of the call: the optimized service looks in the cache
BeginGetOrCreate(p, method, code) ==
    LET pr == [IdleProc EXCEPT !.op = "get", !.method = method, !.code = code,
                               !.at = now]
        g == CacheGet(clipboardCache, code, now)
    IN /\ clipboardCache' = g[1]
       /\ proc' = [proc EXCEPT ![p] =
             IF g[2] # << >>
             THEN Returned(pr, g[2][1], "async_pending")
             ELSE [pr EXCEPT !.pc = "g_find"]]

CallGetOrCreate(p) ==
    /\ CanCall(p)
    /\ \E code \in SvcCodes : BeginGetOrCreate(p, "none", code)
    /\ calls' = calls + 1
    /\ UNCHANGED <<store, nextId, now, codeExistsCache, clockSteps, cleanupVars, schedVars, unitVars>>

\* GET /api/clipboard/[code]
HttpGet(p) ==
    /\ CanCall(p)
    /\ \E code \in HttpCodes :
          IF validateStringThrows(CodeValue(code), TRUE, <<1>>, <<MaxCodeLength>>)
          THEN /\ proc' = [proc EXCEPT ![p] =
                     Thrown([IdleProc EXCEPT !.op = "get", !.method = "GET",
                                             !.code = code],
                            ApiErr("VALIDATION_ERROR"))]
               /\ clipboardCache' = clipboardCache
          ELSE BeginGetOrCreate(p, "GET", code)
    /\ calls' = calls + 1
    /\ UNCHANGED <<store, nextId, now, codeExistsCache, clockSteps, cleanupVars, schedVars, unitVars>>

\* the store call of the base service wrote and produced the row: the optimized
\* service goes on to its cache update
AfterStore(pr, row, cachepc) ==
    [pr EXCEPT !.pc = cachepc, !.ret = <<row>>, !.wrote = TRUE]

\* prisma.clipboard.findUnique({where: {code}})
GetFindUnique(p) ==
    /\ proc[p].pc = "g_find"
    /\ IF RowsOf(proc[p].code) = {}
       THEN proc' = [proc EXCEPT ![p].pc = "g_create"]
       ELSE \E r \in RowsOf(proc[p].code) :
              proc' = [proc EXCEPT ![p].pc = "g_update", ![p].existing = <<r>>]
    /\ UNCHANGED <<store, nextId, now, cacheVars, calls, clockSteps, cleanupVars, schedVars, unitVars>>

\* prisma.clipboard.update({where: {code}, data: {lastAccessed}}); P2025 is
\* not P2002 and is wrapped in DATABASE_ERROR
GetUpdate(p) ==
    /\ proc[p].pc = "g_update"
    /\ IF RowsOf(proc[p].code) = {}
       THEN /\ proc' = [proc EXCEPT ![p] = Thrown(@, SvcErr("DATABASE_ERROR"))]
            /\ store' = store
       ELSE \E r \in RowsOf(proc[p].code) :
              /\ store' = ReplaceRow(r, TouchedRow(r))
              /\ proc' = [proc EXCEPT ![p] = AfterStore(@, TouchedRow(r), "g_cache_set")]
    /\ UNCHANGED <<nextId, now, cacheVars, calls, clockSteps, cleanupVars, schedVars, unitVars>>

\* prisma.clipboard.create({data: {code, content: '', lastAccessed}})
GetCreate(p) ==
    /\ proc[p].pc = "g_create"
    /\ IF DbCreateFails(proc[p].code)
       THEN /\ proc' = [proc EXCEPT ![p].pc = "g_retry_find", ![p].retried = TRUE]
            /\ UNCHANGED storeVars
       ELSE /\ store' = store \cup {NewRow(proc[p].code, EmptyContent)}
            /\ nextId' = nextId + 1
            /\ proc' = [proc EXCEPT ![p] =
                  AfterStore(@, NewRow(proc[p].code, EmptyContent), "g_cache_set")]
    /\ UNCHANGED <<now, cacheVars, calls, clockSteps, cleanupVars, schedVars, unitVars>>

\* a create failure that is not handled: no re-read, the call fails
GetNoRetry(p) ==
    /\ proc[p].pc = "g_retry_find"
    /\ proc' = [proc EXCEPT ![p] = Thrown(@, SvcErr("DATABASE_ERROR"))]
    /\ UNCHANGED <<store, nextId, now, cacheVars, calls, clockSteps, cleanupVars, schedVars, unitVars>>

\* the P2002 handler: findUnique again
GetRetryFind(p) ==
    /\ proc[p].pc = "g_retry_find"
    /\ IF RowsOf(proc[p].code) = {}
       THEN proc' = [proc EXCEPT ![p] = Thrown(@, SvcErr("DATABASE_ERROR"))]
       ELSE \E r \in RowsOf(proc[p].code) :
              proc' = [proc EXCEPT ![p].pc = "g_retry_update", ![p].existing = <<r>>]
    /\ UNCHANGED <<store, nextId, now, cacheVars, calls, clockSteps, cleanupVars, schedVars, unitVars>>

\* the P2002 handler: update; a failure here leaves the catch block unwrapped
GetRetryUpdate(p) ==
    /\ proc[p].pc = "g_retry_update"
    /\ IF RowsOf(proc[p].code) = {}
       THEN /\ proc' = [proc EXCEPT ![p] = Thrown(@, PrismaErr("P2025"))]
            /\ store' = store
       ELSE \E r \in RowsOf(proc[p].code) :
              /\ store' = ReplaceRow(r, TouchedRow(r))
              /\ proc' = [proc EXCEPT ![p] = AfterStore(@, TouchedRow(r), "g_cache_set")]
    /\ UNCHANGED <<nextId, now, cacheVars, calls, clockSteps, cleanupVars, schedVars, unitVars>>

\* OptimizedClipboardService.getOrCreateClipboard: clipboardCache.set(code, clipboard)
GetCacheSet(p) ==
    /\ proc[p].pc = "g_cache_set"
    /\ clipboardCache' = CacheSet(clipboardCache, proc[p].code, proc[p].ret[1], << >>,
                                  now, ClipboardCacheTTL, ClipboardCacheMaxSize)
    /\ proc' = [proc EXCEPT ![p] = Returned(@, proc[p].ret[1], "done")]
    /\ UNCHANGED <<store, nextId, now, codeExistsCache, calls, clockSteps, cleanupVars, schedVars, unitVars>>

\* a deferred update that leaves the store alone
AsyncNoTouch(p) ==
    /\ proc[p].pc = "async_pending"
    /\ proc' = [proc EXCEPT ![p].pc = "async_cache"]
    /\ UNCHANGED <<store, nextId, now, cacheVars, calls, clockSteps, cleanupVars, schedVars, unitVars>>

\* updateAccessTimeAsync, the timer callback: updateAccessTime swallows a failure
AsyncUpdateAccessTime(p) ==
    /\ proc[p].pc = "async_pending"
    /\ IF RowsOf(proc[p].code) = {}
       THEN store' = store
       ELSE \E r \in RowsOf(proc[p].code) : store' = ReplaceRow(r, TouchedRow(r))
    /\ proc' = [proc EXCEPT ![p].pc = "async_cache"]
    /\ UNCHANGED <<nextId, now, cacheVars, calls, clockSteps, cleanupVars, schedVars, unitVars>>

\* updateAccessTimeAsync, after the await: refresh lastAccessed of the cached value
AsyncCacheRefresh(p) ==
    /\ proc[p].pc = "async_cache"
    /\ LET g == CacheGet(clipboardCache, proc[p].code, now)
       IN clipboardCache' =
            IF g[2] # << >>
            THEN CacheSet(g[1], proc[p].code, [g[2][1] EXCEPT !.lastAccessed = now],
                          << >>, now, ClipboardCacheTTL, ClipboardCacheMaxSize)
            ELSE g[1]
    /\ proc' = [proc EXCEPT ![p].pc = "done"]
    /\ UNCHANGED <<store, nextId, now, codeExistsCache, calls, clockSteps, cleanupVars, schedVars, unitVars>>

(***************************************************************************)
(* upsertClipboard and POST / PUT /api/clipboard/[code]                    *)
(***************************************************************************)
\* the synchronous start of upsertClipboard: validateContent, then the upsert is issued
BeginUpsert(p, method, code, content) ==
    LET pr == [IdleProc EXCEPT !.op = "upsert", !.method = method,
                               !.code = code, !.content = content]
    IN proc' = [proc EXCEPT ![p] =
                  IF ContentTooLarge(content)
                  THEN Thrown(pr, SvcErr("CONTENT_TOO_LARGE"))
                  ELSE [pr EXCEPT !.pc = "u_db"]]

CallUpsert(p) ==
    /\ CanCall(p)
    /\ \E code \in SvcCodes, content \in SvcContents :
          BeginUpsert(p, "none", code, content)
    /\ calls' = calls + 1
    /\ UNCHANGED <<store, nextId, now, cacheVars, clockSteps, cleanupVars, schedVars, unitVars>>

\* the error the route handler's validation throws, or NoErr
WriteValidationError(method, code, body) ==
    IF ~body.json THEN ApiErr("INVALID_REQUEST")
    ELSE IF validateStringThrows(CodeValue(code), TRUE, <<1>>, <<MaxCodeLength>>)
    THEN ApiErr("VALIDATION_ERROR")
    ELSE IF body.content = NullBody
    THEN JsErr("TypeError")
    ELSE IF validateStringThrows(body.content, method = "POST", << >>, << >>)
    THEN ApiErr("VALIDATION_ERROR")
    ELSE IF (method = "POST" \/ body.content.len > 0)
            /\ validateContentSizeThrows(body.content.len)
    THEN ApiErr("CONTENT_TOO_LARGE")
    ELSE NoErr

\* POST and PUT /api/clipboard/[code]
HttpWrite(p) ==
    /\ CanCall(p)
    /\ \E method \in {"POST", "PUT"}, code \in HttpCodes, body \in HttpBodies :
          LET e == WriteValidationError(method, code, body)
          IN IF e # NoErr
             THEN proc' = [proc EXCEPT ![p] =
                     Thrown([IdleProc EXCEPT !.op = "upsert",
                                             !.method = method, !.code = code,
                                             !.content = body.text], e)]
             ELSE BeginUpsert(p, method, code, body.text)
    /\ calls' = calls + 1
    /\ UNCHANGED <<store, nextId, now, cacheVars, clockSteps, cleanupVars, schedVars, unitVars>>

\* prisma.clipboard.upsert
UpsertDb(p) ==
    /\ proc[p].pc = "u_db"
    /\ IF RowsOf(proc[p].code) = {}
       THEN /\ store' = store \cup {NewRow(proc[p].code, proc[p].content)}
            /\ nextId' = nextId + 1
            /\ proc' = [proc EXCEPT ![p] =
                  AfterStore(@, NewRow(proc[p].code, proc[p].content), "u_cache_set")]
       ELSE \E r \in RowsOf(proc[p].code) :
              /\ store' = ReplaceRow(r, WrittenRow(r, proc[p].content))
              /\ nextId' = nextId
              /\ proc' = [proc EXCEPT ![p] =
                    AfterStore(@, WrittenRow(r, proc[p].content), "u_cache_set")]
    /\ UNCHANGED <<now, cacheVars, calls, clockSteps, cleanupVars, schedVars, unitVars>>

\* OptimizedClipboardService.upsertClipboard: both caches are updated
UpsertCacheSet(p) ==
    /\ proc[p].pc = "u_cache_set"
    /\ clipboardCache' = CacheSet(clipboardCache, proc[p].code, proc[p].ret[1], << >>,
                                  now, ClipboardCacheTTL, ClipboardCacheMaxSize)
    /\ codeExistsCache' = CacheSet(codeExistsCache, proc[p].code, TRUE, << >>,
                                   now, CodeExistsCacheTTL, CodeExistsCacheMaxSize)
    /\ proc' = [proc EXCEPT ![p] = Returned(@, proc[p].ret[1], "done")]
    /\ UNCHANGED <<store, nextId, now, calls, clockSteps, cleanupVars, schedVars, unitVars>>

(***************************************************************************)
(* updateClipboard                                                         *)
(***************************************************************************)
\* the versions a caller may pass: none, a wrong one, or an updatedAt it has seen
Versions == {<< >>, <<-1>>} \cup {<<r.updatedAt>> : r \in store}

CallUpdate(p) ==
    /\ CanCall(p)
    /\ \E code \in SvcCodes, content \in SvcContents, v \in Versions :
          LET pr == [IdleProc EXCEPT !.op = "update", !.code = code,
                                     !.content = content, !.version = v]
          IN proc' = [proc EXCEPT ![p] =
                        IF ContentTooLarge(content)
                        THEN Thrown(pr, SvcErr("CONTENT_TOO_LARGE"))
                        ELSE [pr EXCEPT !.pc = "up_find"]]
    /\ calls' = calls + 1
    /\ UNCHANGED <<store, nextId, now, cacheVars, clockSteps, cleanupVars, schedVars, unitVars>>

\* an updateClipboard without the optimistic-lock check
UpdateFindAnyVersion(p) ==
    /\ proc[p].pc = "up_find"
    /\ IF RowsOf(proc[p].code) = {}
       THEN proc' = [proc EXCEPT ![p] = Thrown(@, SvcErr("NOT_FOUND"))]
       ELSE \E r \in RowsOf(proc[p].code) :
              proc' = [proc EXCEPT ![p] = [@ EXCEPT !.pc = "up_write", !.existing = <<r>>]]
    /\ UNCHANGED <<store, nextId, now, cacheVars, calls, clockSteps, cleanupVars, schedVars, unitVars>>

\* findUnique, the existence check and the optimistic-lock check
UpdateFind(p) ==
    /\ proc[p].pc = "up_find"
    /\ IF RowsOf(proc[p].code) = {}
       THEN proc' = [proc EXCEPT ![p] = Thrown(@, SvcErr("NOT_FOUND"))]
       ELSE \E r \in RowsOf(proc[p].code) :
              proc' = [proc EXCEPT ![p] =
                  IF proc[p].version # << >> /\ proc[p].version[1] # r.updatedAt
                  THEN Thrown(@, SvcErr("CONFLICT"))
                  ELSE [@ EXCEPT !.pc = "up_write", !.existing = <<r>>]]
    /\ UNCHANGED <<store, nextId, now, cacheVars, calls, clockSteps, cleanupVars, schedVars, unitVars>>

\* update({where: {code, updatedAt: existing.updatedAt}, data}); on P2025 the
\* attempt is retried, and the last P2025 is rethrown as it has a code property
UpdateWrite(p) ==
    /\ proc[p].pc = "up_write"
    /\ LET match == {r \in RowsOf(proc[p].code) :
                       r.updatedAt = proc[p].existing[1].updatedAt}
       IN IF match = {}
          THEN /\ store' = store
               /\ proc' = [proc EXCEPT ![p] =
                     IF proc[p].attempt < RetryAttempts - 1
                     THEN [@ EXCEPT !.attempt = @ + 1, !.pc = "up_find"]
                     ELSE Thrown(@, PrismaErr("P2025"))]
          ELSE \E r \in match :
                 /\ store' = ReplaceRow(r, WrittenRow(r, proc[p].content))
                 /\ proc' = [proc EXCEPT ![p] =
                       AfterStore(@, WrittenRow(r, proc[p].content), "up_cache_set")]
    /\ UNCHANGED <<nextId, now, cacheVars, calls, clockSteps, cleanupVars, schedVars, unitVars>>

\* OptimizedClipboardService.updateClipboard: clipboardCache.set(code, updated)
UpdateCacheSet(p) ==
    /\ proc[p].pc = "up_cache_set"
    /\ clipboardCache' = CacheSet(clipboardCache, proc[p].code, proc[p].ret[1], << >>,
                                  now, ClipboardCacheTTL, ClipboardCacheMaxSize)
    /\ proc' = [proc EXCEPT ![p] = Returned(@, proc[p].ret[1], "done")]
    /\ UNCHANGED <<store, nextId, now, codeExistsCache, calls, clockSteps, cleanupVars, schedVars, unitVars>>

(***************************************************************************)
(* deleteClipboard                                                         *)
(***************************************************************************)
CallDelete(p) ==
    /\ CanCall(p)
    /\ \E code \in SvcCodes :
          proc' = [proc EXCEPT ![p] =
                     [IdleProc EXCEPT !.op = "delete", !.code = code, !.pc = "d_db"]]
    /\ calls' = calls + 1
    /\ UNCHANGED <<store, nextId, now, cacheVars, clockSteps, cleanupVars, schedVars, unitVars>>

\* prisma.clipboard.delete({where: {code}}): P2025 becomes NOT_FOUND
DeleteDb(p) ==
    /\ proc[p].pc = "d_db"
    /\ IF RowsOf(proc[p].code) = {}
       THEN /\ store' = store
            /\ proc' = [proc EXCEPT ![p] = Thrown(@, SvcErr("NOT_FOUND"))]
       ELSE \E r \in RowsOf(proc[p].code) :
              /\ store' = store \ {r}
              /\ proc' = [proc EXCEPT ![p].pc = "d_cache", ![p].wrote = TRUE]
    /\ UNCHANGED <<nextId, now, cacheVars, calls, clockSteps, cleanupVars, schedVars, unitVars>>

\* OptimizedClipboardService.deleteClipboard: both cache entries are dropped
DeleteCacheClear(p) ==
    /\ proc[p].pc = "d_cache"
    /\ clipboardCache' = MapDelete(clipboardCache, proc[p].code)
    /\ codeExistsCache' = MapDelete(codeExistsCache, proc[p].code)
    /\ proc' = [proc EXCEPT ![p].pc = "done", ![p].status = "ok"]
    /\ UNCHANGED <<store, nextId, now, calls, clockSteps, cleanupVars, schedVars, unitVars>>

(***************************************************************************)
(* cleanup-service: CleanupServiceImpl.cleanup on the base clipboardService *)
(* One step per store call; the code between two awaits belongs to the     *)
(* step of the call before it.                                             *)
(***************************************************************************)
Runs == {1, 2}

DefaultOptions ==
    [maxAge |-> DefaultMaxAge, maxTotalSize |-> DefaultMaxTotalSize,
     maxCount |-> DefaultMaxCount, batchSize |-> DefaultBatchSize, dryRun |-> FALSE]

\* the option sets a run is started with
CleanupOptionSets ==
    [maxAge : {0, 1, DefaultMaxAge}, maxTotalSize : {0, 2, DefaultMaxTotalSize},
     maxCount : {0, 1, DefaultMaxCount}, batchSize : {1, 2, DefaultBatchSize},
     dryRun : BOOLEAN]

EmptyResult == [deletedCount |-> 0, freedSpace |-> 0, totalProcessed |-> 0, errors |-> << >>]

\* removed, statCount, needless, underLimit record what the run did to the store
IdleRun ==
    [pc |-> "idle", opts |-> DefaultOptions, result |-> EmptyResult,
     cutoff |-> 0, batch |-> << >>, target |-> 0, current |-> 0, limit |-> 0,
     iters |-> 0,
     removed |-> [age |-> {}, size |-> {}, count |-> {}],
     statCount |-> -1, needless |-> FALSE, underLimit |-> FALSE]

RECURSIVE SumSizes(_)
SumSizes(rows) ==
    IF rows = {} THEN 0
    ELSE LET r == CHOOSE x \in rows : TRUE
         IN ContentLength(r.content) + SumSizes(rows \ {r})

RECURSIVE BatchSize(_)
\* oldClipboards.reduce((sum, c) => sum + c.content.length, 0)
BatchSize(b) == IF b = << >> THEN 0 ELSE ContentLength(Head(b).content) + BatchSize(Tail(b))

BatchRows(b) == {b[i] : i \in 1..Len(b)}
BatchCodes(b) == {b[i].code : i \in 1..Len(b)}

Min(a, b) == IF a < b THEN a ELSE b

\* a findMany without the orderBy: any take of the candidate rows, in any order
AnyBatches(cands, take) ==
    LET n == Min(take, Cardinality(cands))
    IN {b \in [1..n -> cands] : \A i, j \in 1..n : i < j => b[i] # b[j]}

\* findMany({where, orderBy: {lastAccessed: 'asc'}, take}): the results the store
\* may give for the candidate rows; rows of equal lastAccessed come in any order
OldestBatches(cands, take) ==
    LET n == Min(take, Cardinality(cands))
    IN {b \in [1..n -> cands] :
          /\ \A i, j \in 1..n : i < j => b[i] # b[j] /\ b[i].lastAccessed <= b[j].lastAccessed
          /\ \A x \in cands \ {b[i] : i \in 1..n} :
                \A i \in 1..n : b[i].lastAccessed <= x.lastAccessed}

\* getClipboardsForCleanup({olderThan, limit, orderBy: 'lastAccessed'})
getClipboardsForCleanup(olderThan, limit) ==
    OldestBatches({r \in store : olderThan = << >> \/ r.lastAccessed < olderThan[1]}, limit)

\* the rows deleteMany({where: {code: {in: codes}}}) removes
DeletedBy(b) == {r \in store : r.code \in BatchCodes(b)}

\* the run returns its result; its locals are gone
Finished(c) ==
    [c EXCEPT !.pc = "done", !.batch = << >>, !.target = 0, !.current = 0,
              !.limit = 0, !.iters = 0]
AfterSize(c) ==
    IF c.opts.maxCount > 0 THEN [c EXCEPT !.pc = "count_stats", !.batch = << >>, !.iters = 0]
    ELSE Finished(c)
AfterAge(c) ==
    IF c.opts.maxTotalSize > 0 THEN [c EXCEPT !.pc = "size_stats", !.batch = << >>, !.iters = 0]
    ELSE AfterSize(c)
\* cleanupByAge computes cutoffDate when it is called
AfterInitialStats(c) ==
    IF c.opts.maxAge > 0
    THEN [c EXCEPT !.pc = "age_fetch", !.cutoff = now - c.opts.maxAge * SecPerDay]
    ELSE AfterAge(c)

OnlyRun(r) == UNCHANGED <<nextId, now, clockSteps, svcVars, schedVars, unitVars>>

\* the run up to its first await: opts is the defaults overridden by the options,
\* getStats is called
StartedRun(o) == [IdleRun EXCEPT !.pc = "stats0", !.opts = o]

\* cleanupService.cleanup(options)
StartCleanup(r, o) ==
    /\ cl[r].pc = "idle"
    /\ cl' = [cl EXCEPT ![r] = StartedRun(o)]
    /\ UNCHANGED store
    /\ OnlyRun(r)

\* cleanup: getStats; nothing to do on an empty table
CleanupInitialStats(r) ==
    /\ cl[r].pc = "stats0"
    /\ cl' = [cl EXCEPT ![r] =
          LET c == [@ EXCEPT !.result.totalProcessed = Cardinality(store)]
          IN IF Cardinality(store) = 0 THEN Finished(c) ELSE AfterInitialStats(c)]
    /\ UNCHANGED store
    /\ OnlyRun(r)

\* a cleanupByAge that deletes what it has fetched in a dry run too
AgeFetchIgnoringDryRun(r) ==
    /\ cl[r].pc = "age_fetch"
    /\ cl[r].iters < MaxIters
    /\ \E b \in getClipboardsForCleanup(<<cl[r].cutoff>>, cl[r].opts.batchSize) :
          cl' = [cl EXCEPT ![r] =
            LET c == [@ EXCEPT !.iters = @ + 1]
            IN IF Len(b) = 0 THEN AfterAge(c)
               ELSE [c EXCEPT !.pc = "age_delete", !.batch = b]]
    /\ UNCHANGED store
    /\ OnlyRun(r)

\* cleanupByAge: fetch the next batch; a dry run accounts for it at once
CleanupAgeFetch(r) ==
    /\ cl[r].pc = "age_fetch"
    /\ cl[r].iters < MaxIters
    /\ \E b \in getClipboardsForCleanup(<<cl[r].cutoff>>, cl[r].opts.batchSize) :
          cl' = [cl EXCEPT ![r] =
            LET c == [@ EXCEPT !.iters = @ + 1]
            IN IF Len(b) = 0 THEN AfterAge(c)
               ELSE IF ~c.opts.dryRun THEN [c EXCEPT !.pc = "age_delete", !.batch = b]
               ELSE LET d == [c EXCEPT !.result.deletedCount = @ + Len(b),
                                       !.result.freedSpace = @ + BatchSize(b)]
                    IN IF Len(b) < c.opts.batchSize THEN AfterAge(d) ELSE d]
    /\ UNCHANGED store
    /\ OnlyRun(r)

\* cleanupByAge: deleteClipboards(codes)
CleanupAgeDelete(r) ==
    /\ cl[r].pc = "age_delete"
    /\ store' = store \ DeletedBy(cl[r].batch)
    /\ cl' = [cl EXCEPT ![r] =
          LET b == cl[r].batch
              d == [@ EXCEPT !.result.deletedCount = @ + Cardinality(DeletedBy(b)),
                             !.result.freedSpace = @ + BatchSize(b),
                             !.removed.age = @ \cup DeletedBy(b)]
          IN IF Len(b) < d.opts.batchSize THEN AfterAge(d)
             ELSE [d EXCEPT !.pc = "age_fetch", !.batch = << >>]]
    /\ OnlyRun(r)

\* cleanupBySize: getStats and the decision whether to clean up
CleanupSizeStats(r) ==
    /\ cl[r].pc = "size_stats"
    /\ cl' = [cl EXCEPT ![r] =
          IF SumSizes(store) <= cl[r].opts.maxTotalSize THEN AfterSize(@)
          ELSE [@ EXCEPT !.pc = "size_fetch", !.current = 0,
                         !.target = SumSizes(store) - cl[r].opts.maxTotalSize]]
    /\ UNCHANGED store
    /\ OnlyRun(r)

\* a size phase that stops after its first round
SizeRoundOnce(d, b) == AfterSize(d)

\* the end of one round of the loop of cleanupBySize
SizeRoundDone(d, b) ==
    IF Len(b) < d.opts.batchSize \/ ~(d.current < d.target) THEN AfterSize(d)
    ELSE [d EXCEPT !.pc = "size_fetch", !.batch = << >>]

\* cleanupBySize: fetch the oldest batch
CleanupSizeFetch(r) ==
    /\ cl[r].pc = "size_fetch"
    /\ cl[r].iters < MaxIters
    /\ \E b \in getClipboardsForCleanup(<< >>, cl[r].opts.batchSize) :
          cl' = [cl EXCEPT ![r] =
            LET c == [@ EXCEPT !.iters = @ + 1]
            IN IF Len(b) = 0 THEN AfterSize(c)
               ELSE IF ~c.opts.dryRun THEN [c EXCEPT !.pc = "size_delete", !.batch = b]
               ELSE SizeRoundDone([c EXCEPT !.result.deletedCount = @ + Len(b),
                                            !.result.freedSpace = @ + BatchSize(b),
                                            !.current = @ + BatchSize(b)], b)]
    /\ UNCHANGED store
    /\ OnlyRun(r)

\* some row of the batch goes although the rows before it already brought the
\* total content size down to the limit
NeedlessInBatch(b, limit) ==
    \E i \in 1..Len(b) :
       /\ b[i] \in store
       /\ SumSizes(store \ {b[j] : j \in 1..(i - 1)}) <= limit

\* cleanupBySize: deleteClipboards(codes)
CleanupSizeDelete(r) ==
    /\ cl[r].pc = "size_delete"
    /\ store' = store \ DeletedBy(cl[r].batch)
    /\ cl' = [cl EXCEPT ![r] =
          LET b == cl[r].batch
              d == [@ EXCEPT !.result.deletedCount = @ + Cardinality(DeletedBy(b)),
                             !.result.freedSpace = @ + BatchSize(b),
                             !.current = @ + BatchSize(b),
                             !.removed.size = @ \cup DeletedBy(b),
                             !.needless = @ \/ NeedlessInBatch(b, cl[r].opts.maxTotalSize),
                             !.underLimit = @ \/ (DeletedBy(b) # {}
                                  /\ SumSizes(store) <= cl[r].opts.maxTotalSize)]
          IN SizeRoundDone(d, b)]
    /\ OnlyRun(r)

\* a count phase that always asks for a full batch
wholeBatch(batchSize, target, current) == batchSize

\* Math.min(batchSize, targetDeletion - currentDeletion)
remainingToDelete(batchSize, target, current) == Min(batchSize, target - current)

\* cleanupByCount: getStats and the decision whether to clean up
CleanupCountStats(r) ==
    /\ cl[r].pc = "count_stats"
    /\ cl' = [cl EXCEPT ![r] =
          LET c == [@ EXCEPT !.statCount = Cardinality(store)]
          IN IF Cardinality(store) <= c.opts.maxCount THEN Finished(c)
             ELSE [c EXCEPT !.pc = "count_fetch", !.current = 0,
                            !.target = Cardinality(store) - c.opts.maxCount,
                            !.limit = remainingToDelete(c.opts.batchSize,
                                          Cardinality(store) - c.opts.maxCount, 0)]]
    /\ UNCHANGED store
    /\ OnlyRun(r)

\* the end of one round of the loop of cleanupByCount
CountRoundDone(d, b) ==
    IF Len(b) < d.limit \/ ~(d.current < d.target) THEN Finished(d)
    ELSE [d EXCEPT !.pc = "count_fetch", !.batch = << >>,
                   !.limit = remainingToDelete(d.opts.batchSize, d.target, d.current)]

\* cleanupByCount: fetch the oldest remainingToDelete rows
CleanupCountFetch(r) ==
    /\ cl[r].pc = "count_fetch"
    /\ cl[r].iters < MaxIters
    /\ \E b \in getClipboardsForCleanup(<< >>, cl[r].limit) :
          cl' = [cl EXCEPT ![r] =
            LET c == [@ EXCEPT !.iters = @ + 1]
            IN IF Len(b) = 0 THEN Finished(c)
               ELSE IF ~c.opts.dryRun THEN [c EXCEPT !.pc = "count_delete", !.batch = b]
               ELSE CountRoundDone([c EXCEPT !.result.deletedCount = @ + Len(b),
                                             !.result.freedSpace = @ + BatchSize(b),
                                             !.current = @ + Len(b)], b)]
    /\ UNCHANGED store
    /\ OnlyRun(r)

\* cleanupByCount: deleteClipboards(codes)
CleanupCountDelete(r) ==
    /\ cl[r].pc = "count_delete"
    /\ store' = store \ DeletedBy(cl[r].batch)
    /\ cl' = [cl EXCEPT ![r] =
          LET b == cl[r].batch
              d == [@ EXCEPT !.result.deletedCount = @ + Cardinality(DeletedBy(b)),
                             !.result.freedSpace = @ + BatchSize(b),
                             !.current = @ + Cardinality(DeletedBy(b)),
                             !.removed.count = @ \cup DeletedBy(b)]
          IN CountRoundDone(d, b)]
    /\ OnlyRun(r)

\* a cleanup whose phases share one catch: the first failure ends the run
StoreFailureEndsRun(r) ==
    /\ cl[r].pc \notin {"idle", "done"}
    /\ cl' = [cl EXCEPT ![r] = Finished([@ EXCEPT !.result.errors = Append(@, "cleanup")])]
    /\ UNCHANGED store
    /\ OnlyRun(r)

\* a store call of the run rejects: the phase's catch records the message and
\* the run goes on with the next phase; the first getStats is caught by cleanup
CleanupStoreFails(r) ==
    /\ cl[r].pc \notin {"idle", "done"}
    /\ cl' = [cl EXCEPT ![r] =
          LET pc == cl[r].pc
              c == [@ EXCEPT !.result.errors = Append(@,
                       CASE pc = "stats0" -> "cleanup"
                         [] pc \in {"age_fetch", "age_delete"} -> "age"
                         [] pc \in {"size_stats", "size_fetch", "size_delete"} -> "size"
                         [] OTHER -> "count")]
          IN CASE pc = "stats0" -> Finished(c)
               [] pc \in {"age_fetch", "age_delete"} -> AfterAge(c)
               [] pc \in {"size_stats", "size_fetch", "size_delete"} -> AfterSize(c)
               [] OTHER -> Finished(c)]
    /\ UNCHANGED store
    /\ OnlyRun(r)

CleanupStep(r) ==
    \/ CleanupInitialStats(r)
    \/ CleanupAgeFetch(r) \/ CleanupAgeDelete(r)
    \/ CleanupSizeStats(r) \/ CleanupSizeFetch(r) \/ CleanupSizeDelete(r)
    \/ CleanupCountStats(r) \/ CleanupCountFetch(r) \/ CleanupCountDelete(r)
    \/ CleanupStoreFails(r)

(***************************************************************************)
(* The environment: the caller takes the result, the clock advances        *)
(***************************************************************************)
Return(p) ==
    /\ proc[p].pc = "done"
    /\ proc' = [proc EXCEPT ![p] = IdleProc]
    /\ UNCHANGED <<store, nextId, now, cacheVars, calls, clockSteps, cleanupVars, schedVars, unitVars>>

Tick ==
    /\ clockSteps < MaxClockSteps
    /\ \E d \in TickSteps : now' = now + d
    /\ clockSteps' = clockSteps + 1
    /\ UNCHANGED <<store, nextId, cacheVars, proc, calls, cleanupVars, schedVars, unitVars>>

InitService ==
    /\ store = {}
    /\ nextId = 1
    /\ now = 0
    /\ clipboardCache = << >>
    /\ codeExistsCache = << >>
    /\ proc = [p \in Procs |-> IdleProc]
    /\ calls = 0
    /\ clockSteps = 0

InitCleanup == cl = [r \in Runs |-> IdleRun]

\* the schedule part of the default configuration
DefaultSchedule ==
    [maxAge |-> DefaultMaxAge, maxTotalSize |-> DefaultMaxTotalSize,
     maxCount |-> DefaultMaxCount]

IdleExec == [pc |-> "idle", type |-> "none"]

\* new ScheduledCleanupImpl(): intervalId 0 is null; console is the last message
\* written by this.log; timers are the interval timers of the runtime that have
\* been set and not cleared
InitSched ==
    /\ sched = [intervalId |-> 0, timers |-> {}, schedule |-> DefaultSchedule,
                isRunning |-> FALSE, logs |-> << >>, console |-> "none"]
    /\ exec = [e \in Runs |-> IdleExec]

InitUnit ==
    /\ gcache = NoCache
    /\ gret = NoCall
    /\ codeIn = << >>
    /\ codeRes = NoResult
    /\ ed = NoEditor
    /\ db = NoDebounce

Init == InitService /\ InitCleanup /\ InitSched /\ InitUnit

GetOrCreateStep(p) ==
       GetFindUnique(p) \/ GetUpdate(p) \/ GetCreate(p)
    \/ GetRetryFind(p) \/ GetRetryUpdate(p) \/ GetCacheSet(p)
    \/ AsyncUpdateAccessTime(p) \/ AsyncCacheRefresh(p)

UpsertStep(p) == UpsertDb(p) \/ UpsertCacheSet(p)

ServiceStep(p) ==
       GetOrCreateStep(p) \/ UpsertStep(p)
    \/ UpdateFind(p) \/ UpdateWrite(p) \/ UpdateCacheSet(p)
    \/ DeleteDb(p) \/ DeleteCacheClear(p)
    \/ Return(p)

ServiceCall(p) ==
    CallGetOrCreate(p) \/ CallUpsert(p) \/ CallUpdate(p) \/ CallDelete(p)

\* concurrent calls of the optimized service
Next == (\E p \in Procs : ServiceCall(p) \/ ServiceStep(p)) \/ Tick

Spec == Init /\ [][Next]_vars

\* the step is taken by a getOrCreateClipboard call of p (its deferred access-time
\* update included)
GetStep(p) == proc'[p] # proc[p] /\ (proc[p].op = "get" \/ proc'[p].op = "get")

\* the rows of the store without their time stamps
Contents(rows) == {[id |-> r.id, code |-> r.code, content |-> r.content] : r \in rows}

\* the create of getOrCreateClipboard: one record with the code and empty content
\* is added and is what the call returns
C2_CreateStep(p) ==
    (proc[p].pc = "g_create" /\ proc'[p].pc = "g_cache_set") =>
       /\ RowsOf(proc[p].code) = {}
       /\ proc'[p].ret[1].code = proc[p].code
       /\ proc'[p].ret[1].content = EmptyContent
       /\ store' = store \cup {proc'[p].ret[1]}

\* any other step of a read changes no content, adds no record and removes none
C2_ReadStep(p) ==
    (GetStep(p) /\ ~(proc[p].pc = "g_create" /\ proc'[p].pc = "g_cache_set")) =>
       Contents(store') = Contents(store)

TwoRacingReads ==
    /\ calls = 2
    /\ \A p \in Procs : proc[p].op = "get"
    /\ proc[1].code = proc[2].code
    /\ \E p \in Procs : proc[p].retried

\* C4: when two getOrCreateClipboard calls for the same nonexistent code both
\* find no record and both attempt the create, the call whose create fails on
\* the unique constraint re-reads the record the other created and returns it:
\* neither call fails, both return the same record, and exactly one record
\* exists for the code afterwards.
C4_RaceReturnsSameRecord ==
    TwoRacingReads =>
       /\ \A p \in Procs : proc[p].status # "error"
       /\ Cardinality(RowsOf(proc[1].code)) = 1
       /\ (\A p \in Procs : proc[p].pc = "done") =>
             /\ \A p \in Procs : proc[p].status = "ok"
             /\ Contents({proc[1].ret[1]}) = Contents({proc[2].ret[1]})
             /\ Contents(RowsOf(proc[1].code)) = Contents({proc[1].ret[1]})

\* both calls of the race have returned
C4_Witness ==
    /\ TwoRacingReads
    /\ \A p \in Procs : proc[p].pc = "done" /\ proc[p].status = "ok"
    /\ proc[1].ret[1].id = proc[2].ret[1].id

\* concurrent requests to /api/clipboard/[code], and direct upsertClipboard calls for
\* the codes of the requests
NextHttp ==
    \/ \E p \in Procs : HttpGet(p) \/ HttpWrite(p)
                          \/ (CallUpsert(p) /\ proc'[p].code \in HttpCodes)
                          \/ GetOrCreateStep(p) \/ UpsertStep(p) \/ Return(p)
    \/ Tick

SpecHttp == Init /\ [][NextHttp]_vars

\* p starts an upsert (a call of upsertClipboard, or a POST / PUT request) whose
\* content is longer than the maximum
StartsOversizeUpsert(p) ==
    /\ proc[p].pc = "idle"
    /\ proc'[p].op = "upsert"
    /\ ContentLength(proc'[p].content) > MaxContentSize

\* the upsert has failed with the content-too-large error, 413 at the endpoint
RejectedAsTooLarge(pr) ==
    /\ pr.pc = "done"
    /\ pr.status = "error"
    /\ pr.err.code = "CONTENT_TOO_LARGE"
    /\ pr.method # "none" => pr.http = 413

\* the code passes the route's validation: 1 to 50 code units, not blank
RouteAcceptsCode(code) ==
    /\ Len(code) >= 1
    /\ Len(code) <= MaxCodeLength
    /\ \E i \in 1..Len(code) : ~IsSpaceUnit(code[i])

\* C1 as stated: for every code and every content longer than the maximum,
\* upsertClipboard and POST / PUT /api/clipboard/{code} fail with the
\* content-too-large error (HTTP 413 at the endpoint) and leave the store and
\* both caches exactly as they were before the call.
C1_OversizeRejected ==
    [][\A p \in Procs :
          StartsOversizeUpsert(p) =>
             /\ RejectedAsTooLarge(proc'[p])
             /\ UNCHANGED <<store, clipboardCache, codeExistsCache>>]_vars

\* the route validates the code, then that the content is not blank (POST only),
\* and only then the size of the content
RouteChecksSize(pr) ==
    /\ RouteAcceptsCode(pr.code)
    /\ pr.method = "POST" => pr.content.ch # " "

\* C1 amended: upsertClipboard fails with the content-too-large error for every
\* code; POST / PUT answer 413 when the code passes the route's validation (1 to
\* 50 code units, not blank) and, for POST, the content is not all white space;
\* otherwise they answer 400 (validation error, raised before the size is
\* looked at).  In every case the call ends there and leaves the store and
\* both caches as they were.
C1_OversizeRejectedForValidCode ==
    [][\A p \in Procs :
          StartsOversizeUpsert(p) =>
             /\ IF proc'[p].method = "none" \/ RouteChecksSize(proc'[p])
                THEN RejectedAsTooLarge(proc'[p])
                ELSE /\ proc'[p].pc = "done"
                     /\ proc'[p].status = "error"
                     /\ proc'[p].err.code = "VALIDATION_ERROR"
                     /\ proc'[p].http = 400
             /\ UNCHANGED <<store, clipboardCache, codeExistsCache>>]_vars

\* a request and a service call were both refused for their oversize content
\* while the store and the caches held a record
C1_Witness ==
    /\ store # {}
    /\ clipboardCache # << >>
    /\ codeExistsCache # << >>
    /\ \E p, q \in Procs :
          /\ proc[p].method \in {"POST", "PUT"} /\ proc[q].method = "none"
          /\ \A x \in {p, q} :
                /\ proc[x].op = "upsert"
                /\ ContentLength(proc[x].content) > MaxContentSize
                /\ RejectedAsTooLarge(proc[x])

(***************************************************************************)
(* One cleanup run on a table, nothing else running                        *)
(***************************************************************************)
StartNow == 40 * SecPerDay
RowTimes == {StartNow - 31 * SecPerDay, StartNow - 2 * SecPerDay, StartNow}
RowSizes == {0, 1, 2}
RowKinds == RowTimes \X RowSizes

KindLeq(a, b) == a[1] < b[1] \/ (a[1] = b[1] /\ a[2] <= b[2])

\* the tables of up to MaxRows rows, one per code, up to the naming of the codes
InitialTables ==
    UNION {
      {{[id |-> i, code |-> <<96 + i>>, content |-> Text("a", f[i][2]),
         updatedAt |-> f[i][1], lastAccessed |-> f[i][1]] : i \in 1..k} :
         f \in {g \in [1..k -> RowKinds] : \A i \in 1..(k - 1) : KindLeq(g[i], g[i + 1])}} :
      k \in 0..MaxRows}

InitCleanupRun ==
    /\ store \in InitialTables
    /\ nextId = MaxRows + 1
    /\ now = StartNow
    /\ clipboardCache = << >>
    /\ codeExistsCache = << >>
    /\ proc = [p \in Procs |-> IdleProc]
    /\ calls = 0
    /\ clockSteps = 0
    /\ InitCleanup /\ InitSched /\ InitUnit

NextCleanup == (\E o \in CleanupOptionSets : StartCleanup(1, o)) \/ CleanupStep(1)

SpecCleanup == InitCleanupRun /\ [][NextCleanup]_vars

\* run 1 has returned from a run that deleted for real and recorded no error
CleanRunDone ==
    /\ cl[1].pc = "done"
    /\ ~cl[1].opts.dryRun
    /\ cl[1].result.errors = << >>

\* what the count phase had to delete: max(0, record count - maxCount)
CountExcess(c) ==
    IF c.statCount > c.opts.maxCount THEN c.statCount - c.opts.maxCount ELSE 0

PhaseRank(pc) ==
    CASE pc = "idle" -> 0
      [] pc = "stats0" -> 1
      [] pc \in {"age_fetch", "age_delete"} -> 2
      [] pc \in {"size_stats", "size_fetch", "size_delete"} -> 3
      [] pc \in {"count_stats", "count_fetch", "count_delete"} -> 4
      [] OTHER -> 5

C7_BoundsHold ==
    CleanRunDone =>
       /\ (cl[1].opts.maxAge > 0 /\ cl[1].result.totalProcessed > 0) =>
             \A r \in store : ~(r.lastAccessed < now - cl[1].opts.maxAge * SecPerDay)
       /\ (cl[1].opts.maxTotalSize > 0) => SumSizes(store) <= cl[1].opts.maxTotalSize
       /\ (cl[1].opts.maxCount > 0) => Cardinality(store) <= cl[1].opts.maxCount

C7_PhaseOrder == PhaseRank(cl'[1].pc) >= PhaseRank(cl[1].pc)

C8_OldestFirst ==
    \A d \in cl[1].removed.size \cup cl[1].removed.count :
       \A r \in store : ~(r.lastAccessed < d.lastAccessed)

\* the count phase deleted a record and left a strictly younger one
C8_Witness ==
    /\ cl[1].pc = "done"
    /\ \E d \in cl[1].removed.count : \E r \in store : d.lastAccessed < r.lastAccessed

(***************************************************************************)
(* scheduled-cleanup: ScheduledCleanupImpl.  An execution e of a scheduled *)
(* or manual cleanup awaits the cleanup run cl[e].  cleanupService.cleanup *)
(* catches every error itself, so the catch blocks of the executions are   *)
(* never entered.                                                          *)
(***************************************************************************)
SchedConfigs ==
    [enabled : BOOLEAN,
     schedule : {DefaultSchedule, [maxAge |-> 0, maxTotalSize |-> 1, maxCount |-> 1]}]

ManualOptionSets ==
    {DefaultOptions,
     [maxAge |-> 0, maxTotalSize |-> 0, maxCount |-> 1, batchSize |-> 1, dryRun |-> FALSE],
     [maxAge |-> 0, maxTotalSize |-> 0, maxCount |-> 1, batchSize |-> 1, dryRun |-> TRUE]}

OnlySched == UNCHANGED <<nextId, now, clockSteps, svcVars, unitVars>>

InProgress == {e \in Runs : exec[e].pc # "idle"}

\* room for the log entry of one more execution
CanExecute == Len(sched.logs) + Cardinality(InProgress) < MaxExecs

\* a start that does not look at intervalId
NeverAlreadyScheduled == FALSE

\* start: if (this.intervalId)
AlreadyScheduled == sched.intervalId # 0

\* the id setInterval returns
NewTimerId == Cardinality(sched.timers) + 1

\* start(config)
SchedStart(config) ==
    /\ sched' =
          IF ~config.enabled THEN [sched EXCEPT !.console = "disabled"]
          ELSE IF AlreadyScheduled THEN [sched EXCEPT !.console = "already scheduled"]
          ELSE [sched EXCEPT !.intervalId = NewTimerId, !.timers = @ \cup {NewTimerId},
                             !.schedule = config.schedule, !.console = "started"]
    /\ UNCHANGED <<store, cl, exec>>
    /\ OnlySched

\* stop()
SchedStop ==
    /\ sched.intervalId # 0
    /\ sched' = [sched EXCEPT !.intervalId = 0, !.timers = @ \ {sched.intervalId},
                               !.console = "stopped"]
    /\ UNCHANGED <<store, cl, exec>>
    /\ OnlySched

\* an overlapping run that is let through
NeverSkip == FALSE

\* executeScheduledCleanup: if (this.isRunning) ... return
SkipTick == sched.isRunning

\* the interval timer fires: executeScheduledCleanup(fullConfig)
IntervalTick(e) ==
    /\ sched.timers # {}
    /\ IF SkipTick
       THEN /\ sched' = [sched EXCEPT !.console = "skipped"]
            /\ UNCHANGED <<cl, exec>>
       ELSE /\ exec[e].pc = "idle"
            /\ cl[e].pc = "idle"
            /\ CanExecute
            /\ sched' = [sched EXCEPT !.isRunning = TRUE, !.console = "scheduled begins"]
            /\ exec' = [exec EXCEPT ![e] = [pc |-> "cleanup", type |-> "scheduled"]]
            /\ cl' = [cl EXCEPT ![e] =
                  StartedRun([maxAge |-> sched.schedule.maxAge,
                              maxTotalSize |-> sched.schedule.maxTotalSize,
                              maxCount |-> sched.schedule.maxCount,
                              batchSize |-> ScheduledBatchSize, dryRun |-> FALSE])]
    /\ UNCHANGED store
    /\ OnlySched

\* executeManualCleanup(options)
ManualStart(e, o) ==
    /\ exec[e].pc = "idle"
    /\ cl[e].pc = "idle"
    /\ CanExecute
    /\ sched' = [sched EXCEPT !.console = "manual begins"]
    /\ exec' = [exec EXCEPT ![e] = [pc |-> "cleanup", type |-> "manual"]]
    /\ cl' = [cl EXCEPT ![e] = StartedRun(o)]
    /\ UNCHANGED store
    /\ OnlySched

\* addLog: push, then keep the last maxLogs entries
addLog(logs, log) ==
    LET l == Append(logs, log)
    IN IF Len(l) > MaxLogs THEN SubSeq(l, Len(l) - MaxLogs + 1, Len(l)) ELSE l

\* an execution whose end leaves isRunning as it was
ExecFinishKeepingFlag(e) ==
    /\ exec[e].pc = "cleanup"
    /\ cl[e].pc = "done"
    /\ sched' = [sched EXCEPT
          !.logs = addLog(@, [timestamp |-> now, type |-> exec[e].type,
                              result |-> cl[e].result, dryRun |-> cl[e].opts.dryRun]),
          !.console = IF Len(cl[e].result.errors) > 0 THEN "done with errors" ELSE "done"]
    /\ exec' = [exec EXCEPT ![e] = IdleExec]
    /\ cl' = [cl EXCEPT ![e] = IdleRun]
    /\ UNCHANGED store
    /\ OnlySched

\* the awaited cleanup has returned its result: the log entry, the message, and
\* for a scheduled execution the finally block
ExecFinish(e) ==
    /\ exec[e].pc = "cleanup"
    /\ cl[e].pc = "done"
    /\ sched' = [sched EXCEPT
          !.logs = addLog(@, [timestamp |-> now, type |-> exec[e].type,
                              result |-> cl[e].result, dryRun |-> cl[e].opts.dryRun]),
          !.console = IF Len(cl[e].result.errors) > 0 THEN "done with errors" ELSE "done",
          !.isRunning = IF exec[e].type = "scheduled" THEN FALSE ELSE @]
    /\ exec' = [exec EXCEPT ![e] = IdleExec]
    /\ cl' = [cl EXCEPT ![e] = IdleRun]
    /\ UNCHANGED store
    /\ OnlySched

\* getLogs(limit): the newest first, the first limit of them when limit is given
RECURSIVE Reversed(_)
Reversed(q) == IF q = << >> THEN << >> ELSE Append(Reversed(Tail(q)), Head(q))

getLogs(limit) ==
    LET logs == Reversed(sched.logs)
    IN IF limit # << >> /\ limit[1] # 0 THEN SubSeq(logs, 1, Min(limit[1], Len(logs)))
       ELSE logs

\* clearLogs()
ClearLogs ==
    /\ sched.logs # << >>
    /\ sched' = [sched EXCEPT !.logs = << >>, !.console = "logs cleared"]
    /\ UNCHANGED <<store, cl, exec>>
    /\ OnlySched

\* getStatus()
getStatus ==
    [isScheduled |-> sched.intervalId # 0, isRunning |-> sched.isRunning,
     totalLogs |-> Len(sched.logs)]

\* the table: one record last accessed 31 days ago, one just now
InitScheduled ==
    /\ now = StartNow
    /\ store = {[id |-> 1, code |-> <<97>>, content |-> Text("a", 2),
                 updatedAt |-> StartNow - 31 * SecPerDay,
                 lastAccessed |-> StartNow - 31 * SecPerDay],
                [id |-> 2, code |-> <<98>>, content |-> Text("b", 1),
                 updatedAt |-> StartNow, lastAccessed |-> StartNow]}
    /\ nextId = 3
    /\ clipboardCache = << >>
    /\ codeExistsCache = << >>
    /\ proc = [p \in Procs |-> IdleProc]
    /\ calls = 0
    /\ clockSteps = 0
    /\ InitCleanup /\ InitSched /\ InitUnit

NextSched ==
    \/ \E config \in SchedConfigs : SchedStart(config)
    \/ SchedStop
    \/ \E e \in Runs : \/ IntervalTick(e)
                        \/ \E o \in ManualOptionSets : ManualStart(e, o)
                        \/ CleanupStep(e)
                        \/ ExecFinish(e)
    \/ ClearLogs

SpecSched == InitScheduled /\ [][NextSched]_vars

ScheduledInProgress == {e \in Runs : exec[e].pc # "idle" /\ exec[e].type = "scheduled"}

\* C9: at most one scheduled cleanup execution is in progress at any time: an
\* interval tick that fires while a previous scheduled execution has not yet
\* finished is skipped without calling cleanupService.cleanup and without
\* adding a log entry.
C9_NoOverlappingScheduledRun ==
    /\ [](Cardinality(ScheduledInProgress) <= 1)
    /\ [][(ScheduledInProgress # {} /\ sched'.console = "skipped"
              /\ sched.console # "skipped")
            => /\ UNCHANGED <<store, cl, exec>>
               /\ sched'.logs = sched.logs
               /\ sched'.isRunning]_vars

\* a tick was skipped while the scheduled execution was deleting
C9_Witness ==
    /\ sched.console = "skipped"
    /\ \E e \in ScheduledInProgress : cl[e].pc \in {"age_delete", "size_delete"}
    /\ Cardinality(ScheduledInProgress) = 1

(***************************************************************************)
(* A CacheService instance on its own: set, get, has, delete, clear, the   *)
(* periodic cleanup and the clock.  The value stored under a key records   *)
(* when it was set and with which ttl argument.                            *)
(***************************************************************************)
CacheKeyInputs == {<< >>, <<97>>, <<98>>}
TtlArgs == {<< >>, <<0>>, <<1>>}
DefaultTTLOptions == {<< >>, <<2>>}
CacheTickSteps == {1, ClassDefaultTTL}

OnlyCache == UNCHANGED <<store, nextId, clockSteps, svcVars, cleanupVars, schedVars,
                         codeIn, codeRes, ed, db>>

InitCache ==
    /\ store = {}
    /\ nextId = 1
    /\ now = 0
    /\ clipboardCache = << >>
    /\ codeExistsCache = << >>
    /\ proc = [p \in Procs |-> IdleProc]
    /\ calls = 0
    /\ clockSteps = 0
    /\ InitCleanup /\ InitSched
    /\ \E d \in DefaultTTLOptions : gcache = NewCache(d, <<CacheMaxSize>>, CodeExistsCacheMaxSize)
    /\ gret = NoCall
    /\ codeIn = << >>
    /\ codeRes = NoResult
    /\ ed = NoEditor
    /\ db = NoDebounce

\* cache.set(key, data, ttl)
GSet(key, ttlArg) ==
    /\ gcache' = [gcache EXCEPT !.entries =
          CacheSet(@, key, [t |-> now, ttlArg |-> ttlArg], ttlArg, now,
                   gcache.defaultTTL, gcache.maxSize)]
    /\ gret' = [op |-> "set", key |-> key, res |-> << >>, at |-> now]
    /\ now' = now
    /\ OnlyCache

\* cache.get(key)
GGet(key) ==
    /\ LET g == CacheGet(gcache.entries, key, now)
       IN /\ gcache' = [gcache EXCEPT !.entries = g[1]]
          /\ gret' = [op |-> "get", key |-> key, res |-> g[2], at |-> now]
    /\ now' = now
    /\ OnlyCache

\* cache.has(key)
GHas(key) ==
    /\ LET g == CacheHas(gcache.entries, key, now)
       IN /\ gcache' = [gcache EXCEPT !.entries = g[1]]
          /\ gret' = [op |-> "has", key |-> key, res |-> <<g[2]>>, at |-> now]
    /\ now' = now
    /\ OnlyCache

\* cache.delete(key)
GDelete(key) ==
    /\ gcache' = [gcache EXCEPT !.entries = MapDelete(@, key)]
    /\ gret' = [op |-> "delete", key |-> key,
                res |-> <<key \in CacheKeys(gcache.entries)>>, at |-> now]
    /\ now' = now
    /\ OnlyCache

\* cache.clear()
GClear ==
    /\ gcache' = [gcache EXCEPT !.entries = << >>]
    /\ gret' = [op |-> "clear", key |-> << >>, res |-> << >>, at |-> now]
    /\ now' = now
    /\ OnlyCache

\* the cleanup timer fires
GCleanup ==
    /\ gcache' = [gcache EXCEPT !.entries = CacheCleanup(@, now)]
    /\ gret' = [op |-> "cleanup", key |-> << >>, res |-> << >>, at |-> now]
    /\ now' = now
    /\ OnlyCache

GTick ==
    /\ clockSteps < MaxTicks
    /\ \E d \in CacheTickSteps : now' = now + d
    /\ clockSteps' = clockSteps + 1
    /\ UNCHANGED <<store, nextId, svcVars, cleanupVars, schedVars, unitVars>>

NextCache ==
    \/ \E key \in CacheKeyInputs : \/ \E ttlArg \in TtlArgs : GSet(key, ttlArg)
                                   \/ GGet(key) \/ GHas(key) \/ GDelete(key)
    \/ GClear \/ GCleanup \/ GTick

SpecCache == InitCache /\ [][NextCache]_vars

\* the TTL of a stored value as the caller gave it: the ttl passed to set, or the
\* cache's default when none was passed
GivenTTL(d) == IF d.ttlArg = << >> THEN gcache.defaultTTL ELSE d.ttlArg[1]

\* more than the given TTL of the entry under key has elapsed since its set
Outlived(key) ==
    /\ key \in CacheKeys(gcache.entries)
    /\ LET d == gcache.entries[CacheIndex(gcache.entries, key)].data
       IN now - d.t > GivenTTL(d)

\* C5: get(key) and has(key) never return an entry once more than its TTL (the
\* ttl passed to set, or the cache's default when none was passed) has elapsed
\* since the set that stored it: such a call returns null / false and removes
\* the entry, whether or not the periodic cleanup has run.
C5_NoExpiredEntry ==
    [][\A key \in CacheKeyInputs :
          (Outlived(key) /\ gret' # gret /\ gret'.op \in {"get", "has"} /\ gret'.key = key)
             => /\ gret'.op = "get" => gret'.res = << >>
                /\ gret'.op = "has" => gret'.res = <<FALSE>>
                /\ key \notin CacheKeys(gcache'.entries)]_vars

(***************************************************************************)
(* validateCodeFormat on its own.  An input is a run of 'a' followed by up *)
(* to MaxTail code units taken around the borders of the character class.  *)
(***************************************************************************)
CodeUnits ==
    {9, 10, 32, 44, 45, 46, 47, 48, 57, 58, 64, 65, 90, 91, 94, 95, 96, 97, 122, 123,
     19967, 19968, 40869, 40870, 55357, 56832}

PadLengths == {0, 1, MaxCodeLength - 2, MaxCodeLength - 1, MaxCodeLength, MaxCodeLength + 1}

CodeInputs ==
    {Rep(97, n) \o t : n \in PadLengths,
                       t \in UNION {[1..k -> CodeUnits] : k \in 0..MaxTail}}

InitCode ==
    /\ store = {}
    /\ nextId = 1
    /\ now = 0
    /\ clipboardCache = << >>
    /\ codeExistsCache = << >>
    /\ proc = [p \in Procs |-> IdleProc]
    /\ calls = 0
    /\ clockSteps = 0
    /\ InitCleanup /\ InitSched
    /\ gcache = NoCache
    /\ gret = NoCall
    /\ codeIn \in CodeInputs
    /\ codeRes = NoResult
    /\ ed = NoEditor
    /\ db = NoDebounce

\* validateCodeFormat(codeIn)
ValidateCode ==
    /\ codeRes = NoResult
    /\ codeRes' = <<validateCodeFormat(codeIn)>>
    /\ UNCHANGED <<store, nextId, now, clockSteps, svcVars, cleanupVars, schedVars,
                   gcache, gret, codeIn, ed, db>>

NextValidate == ValidateCode

SpecCode == InitCode /\ [][NextValidate]_vars

IsHighSurrogate(u) == u >= 55296 /\ u <= 56319
IsLowSurrogate(u) == u >= 56320 /\ u <= 57343

RECURSIVE Characters(_)
\* the characters (code points) of a string of UTF-16 code units: a surrogate
\* pair is one character, a lone surrogate counts for itself
Characters(s) ==
    IF s = << >> THEN << >>
    ELSE IF Len(s) >= 2 /\ IsHighSurrogate(s[1]) /\ IsLowSurrogate(s[2])
    THEN <<65536 + (s[1] - 55296) * 1024 + (s[2] - 56320)>> \o Characters(Tail(Tail(s)))
    ELSE <<s[1]>> \o Characters(Tail(s))

\* a Chinese character U+4E00..U+9FA5, an ASCII letter, a digit, '-', '_' or '.'
AllowedCharacter(c) ==
    \/ (c >= 19968 /\ c <= 40869)
    \/ (c >= 65 /\ c <= 90) \/ (c >= 97 /\ c <= 122)
    \/ (c >= 48 /\ c <= 57)
    \/ c \in {45, 95, 46}

\* C10: validateCodeFormat(code) returns isValid = true exactly when code has
\* between 1 and 50 characters and every character is a Chinese character
\* (U+4E00..U+9FA5), an ASCII letter, a digit, '-', '_' or '.'; for every other
\* string it returns isValid = false with an error message.
C10_ValidExactlyWhenAllowed ==
    codeRes # NoResult =>
       LET cs == Characters(codeIn)
           allowed == /\ Len(cs) >= 1
                      /\ Len(cs) <= 50
                      /\ \A i \in 1..Len(cs) : AllowedCharacter(cs[i])
       IN /\ codeRes[1].isValid = allowed
          /\ ~allowed => codeRes[1].error # "none"

\* a code of exactly 50 characters ending in the last character of the range was
\* accepted
C10_Witness ==
    /\ codeRes # NoResult
    /\ Len(codeIn) = 50
    /\ codeIn[50] = 40869
    /\ codeRes[1].isValid

(***************************************************************************)
(* Service calls while a cleanup run is going on                           *)
(***************************************************************************)
SweepOptionSets ==
    [maxAge : {0, 1}, maxTotalSize : {0, 1}, maxCount : {0, 1}, batchSize : {1, 2},
     dryRun : {FALSE}]

\* the table holds one record, of another code, last accessed two days ago
InitSweep ==
    /\ now = 2 * SecPerDay
    /\ store = {[id |-> 1, code |-> <<98>>, content |-> Text("b", 2),
                 updatedAt |-> 0, lastAccessed |-> 0]}
    /\ nextId = 2
    /\ clipboardCache = << >>
    /\ codeExistsCache = << >>
    /\ proc = [p \in Procs |-> IdleProc]
    /\ calls = 0
    /\ clockSteps = 0
    /\ InitCleanup /\ InitSched /\ InitUnit

NextSweep ==
    \/ \E p \in Procs :
          \/ calls < SweepCalls /\ ServiceCall(p) /\ proc'[p].code = SweepCode
          \/ ServiceStep(p)
    \/ (\E o \in SweepOptionSets : StartCleanup(1, o))
    \/ CleanupStep(1)

SpecSweep == InitSweep /\ [][NextSweep]_vars

\* C3: in every reachable state, under any interleaving of concurrent
\* getOrCreateClipboard, upsertClipboard, updateClipboard, deleteClipboard and
\* cleanup operations, the store holds at most one record per code.
C3_OneRecordPerCode ==
    \A r1, r2 \in store : r1.code = r2.code => r1 = r2

\* a create lost the race on the unique index while a cleanup run was deleting
C3_Witness ==
    /\ \E p \in Procs : proc[p].retried /\ proc[p].pc = "done"
    /\ cl[1].pc \notin {"idle", "done"}
    /\ cl[1].removed.age \cup cl[1].removed.size \cup cl[1].removed.count # {}
    /\ store # {}

\* a code of 1 to 50 characters of the restricted character set
WellFormedCode(code) ==
    LET cs == Characters(code)
    IN /\ Len(cs) >= 1
       /\ Len(cs) <= MaxCodeLength
       /\ \A i \in 1..Len(cs) : AllowedCharacter(cs[i])

\* C11: in every state reachable through GET / POST / PUT /api/clipboard/{code}
\* requests, every record in the store has a code of 1 to 50 characters drawn
\* only from the restricted character set (Chinese characters, ASCII letters,
\* digits, '-', '_', '.'), and a request whose code violates this is rejected
\* and creates no record.
C11_StoredCodesWellFormed ==
    /\ [](\A r \in store : WellFormedCode(r.code))
    /\ [][\A p \in Procs :
            (proc[p].pc = "idle" /\ proc'[p].pc # "idle"
                /\ ~WellFormedCode(proc'[p].code))
               => proc'[p].pc = "done" /\ proc'[p].status = "error"]_vars

(***************************************************************************)
(* Requests to /api/clipboard/[code] on a store whose calls may fail       *)
(***************************************************************************)
\* a store call of the request rejects with an error other than P2002 and P2025
\* (the connection is lost, the disk is full): inside its try block the service
\* wraps the error in DATABASE_ERROR; inside the P2002 handler of
\* getOrCreateClipboard nothing catches it and the route sees the Prisma error
StoreFails(p) ==
    /\ proc[p].pc \in {"g_find", "g_update", "g_create", "g_retry_find",
                       "g_retry_update", "u_db"}
    /\ proc' = [proc EXCEPT ![p] =
          IF proc[p].pc \in {"g_retry_find", "g_retry_update"}
          THEN Thrown(@, PrismaErr("P1017"))
          ELSE Thrown(@, SvcErr("DATABASE_ERROR"))]
    /\ UNCHANGED <<store, nextId, now, cacheVars, calls, clockSteps, cleanupVars,
                   schedVars, unitVars>>

NextRoute ==
    \E p \in Procs : \/ HttpGet(p) \/ HttpWrite(p)
                     \/ GetOrCreateStep(p) \/ UpsertStep(p)
                     \/ StoreFails(p)
                     \/ Return(p)

SpecRoute == Init /\ [][NextRoute]_vars

\* the status the categories of the claim give to an error: a request body
\* without a content to read (the TypeError) is a validation failure
CategoryStatus(e) ==
    CASE e.code \in {"VALIDATION_ERROR", "INVALID_REQUEST", "TypeError"} -> 400
      [] e.code = "CONTENT_TOO_LARGE" -> 413
      [] e.code \in {"NOT_FOUND", "P2025"} -> 404
      [] e.code \in {"CONFLICT", "P2002"} -> 409
      [] OTHER -> 500

\* C12: every failed request to GET / POST / PUT /api/clipboard/{code} is
\* answered with the status of its error's category: validation failure or
\* malformed JSON body 400, content too large 413, not found 404, conflict 409,
\* store failure 500; no failed request is answered 200 and none has modified
\* the store.
C12_FailedRequestStatus ==
    \A p \in Procs :
       (proc[p].method # "none" /\ proc[p].status = "error") =>
          /\ proc[p].pc = "done"
          /\ proc[p].http = CategoryStatus(proc[p].err)
          /\ proc[p].http # 200
          /\ ~proc[p].wrote

(***************************************************************************)
(* Service calls for one code, with the timer callbacks of the deferred    *)
(* updates run by the event loop                                           *)
(***************************************************************************)
\* concurrent calls of the optimized service, all for one code
NextLive ==
    \/ \E p \in Procs : \/ (ServiceCall(p) /\ proc'[p].code = SweepCode)
                          \/ ServiceStep(p)
    \/ Tick

SpecLive ==
    Init /\ [][NextLive]_vars /\ \A p \in Procs : WF_vars(AsyncUpdateAccessTime(p))

\* the values the clock takes
RECURSIVE ClockValues(_)
ClockValues(n) ==
    IF n = 0 THEN {0} ELSE {t + d : t \in ClockValues(n - 1), d \in TickSteps \cup {0}}

\* the record of the code, while there is one, was last accessed at t or later
TouchedSince(code, t) == \A r \in RowsOf(code) : r.lastAccessed >= t

CodeExistsSync(code) ==
    LET g == CacheGet(codeExistsCache, code, now)
        h == CacheHas(clipboardCache, code, now)
    IN IF g[2] # << >>
       THEN [ce |-> g[1], cc |-> clipboardCache, ans |-> <<g[2][1]>>]
       ELSE IF h[2]
       THEN [ce |-> CacheSet(g[1], code, TRUE, << >>, now, CodeExistsCacheTTL,
                             CodeExistsCacheMaxSize),
             cc |-> h[1], ans |-> <<TRUE>>]
       ELSE [ce |-> g[1], cc |-> h[1], ans |-> << >>]

\* the existence check of the call is answered with exists
Answered(pr, exists) ==
    [pr EXCEPT !.missed = (~exists /\ RowsOf(pr.code) # {})]

\* optimizedClipboardService.codeExists(code)
CallCodeExists(p) ==
    /\ CanCall(p)
    /\ \E code \in SvcCodes :
          LET pr == [IdleProc EXCEPT !.op = "exists", !.code = code, !.at = now]
              a == CodeExistsSync(code)
          IN /\ codeExistsCache' = a.ce
             /\ clipboardCache' = a.cc
             /\ proc' = [proc EXCEPT ![p] =
                   IF a.ans # << >> THEN Returned(Answered(pr, a.ans[1]), a.ans[1], "done")
                   ELSE [pr EXCEPT !.pc = "e_count"]]
    /\ calls' = calls + 1
    /\ UNCHANGED <<store, nextId, now, clockSteps, cleanupVars, schedVars, unitVars>>

\* prisma.clipboard.count({where: {code}}) > 0
ExistsCount(p) ==
    /\ proc[p].pc \in {"e_count", "gen_count"}
    /\ proc' = [proc EXCEPT ![p] =
          [Answered(@, RowsOf(proc[p].code) # {}) EXCEPT
              !.pc = IF proc[p].pc = "e_count" THEN "e_cache_set" ELSE "gen_cache_set",
              !.ret = <<RowsOf(proc[p].code) # {}>>]]
    /\ UNCHANGED <<store, nextId, now, cacheVars, calls, clockSteps, cleanupVars,
                   schedVars, unitVars>>

\* codeExists after its await: codeExistsCache.set(code, exists)
ExistsCacheSet(p) ==
    /\ proc[p].pc = "e_cache_set"
    /\ codeExistsCache' = CacheSet(codeExistsCache, proc[p].code, proc[p].ret[1], << >>,
                                   now, CodeExistsCacheTTL, CodeExistsCacheMaxSize)
    /\ proc' = [proc EXCEPT ![p] = Returned(@, proc[p].ret[1], "done")]
    /\ UNCHANGED <<store, nextId, now, clipboardCache, calls, clockSteps, cleanupVars,
                   schedVars, unitVars>>

\* the code of the timestamp fallback of generateUniqueCode
FallbackCode == <<0>>

\* generateUniqueCode after isCodeExists: return the code, try again, or fall back
GenAfterAnswer(pr, exists) ==
    IF ~exists THEN Returned(pr, pr.code, "done")
    ELSE IF pr.attempt + 1 < GenMaxRetries
    THEN [pr EXCEPT !.pc = "gen_pick", !.attempt = @ + 1]
    ELSE Returned([pr EXCEPT !.code = FallbackCode], FallbackCode, "done")

\* generateUniqueCode()
CallGenerate(p) ==
    /\ CanCall(p)
    /\ proc' = [proc EXCEPT ![p] =
                  [IdleProc EXCEPT !.op = "generate", !.pc = "gen_pick", !.at = now]]
    /\ calls' = calls + 1
    /\ UNCHANGED <<store, nextId, now, cacheVars, clockSteps, cleanupVars, schedVars, unitVars>>

\* one round of the loop: generateRandomCode(), isCodeExists(code) up to its await
GenPick(p) ==
    /\ proc[p].pc = "gen_pick"
    /\ \E code \in SvcCodes :
          LET pr == [proc[p] EXCEPT !.code = code]
              a == CodeExistsSync(code)
          IN /\ codeExistsCache' = a.ce
             /\ clipboardCache' = a.cc
             /\ proc' = [proc EXCEPT ![p] =
                   IF a.ans # << >> THEN GenAfterAnswer(Answered(pr, a.ans[1]), a.ans[1])
                   ELSE [pr EXCEPT !.pc = "gen_count"]]
    /\ UNCHANGED <<store, nextId, now, calls, clockSteps, cleanupVars, schedVars, unitVars>>

\* codeExists after its await, inside generateUniqueCode
GenCacheSet(p) ==
    /\ proc[p].pc = "gen_cache_set"
    /\ codeExistsCache' = CacheSet(codeExistsCache, proc[p].code, proc[p].ret[1], << >>,
                                   now, CodeExistsCacheTTL, CodeExistsCacheMaxSize)
    /\ proc' = [proc EXCEPT ![p] = GenAfterAnswer([@ EXCEPT !.ret = NoRow], proc[p].ret[1])]
    /\ UNCHANGED <<store, nextId, now, clipboardCache, calls, clockSteps, cleanupVars,
                   schedVars, unitVars>>

\* codeExists, generateUniqueCode, getOrCreateClipboard, upsertClipboard and
\* deleteClipboard calls on the optimized service
NextGen ==
    \E p \in Procs :
       \/ CallCodeExists(p) \/ CallGenerate(p)
       \/ CallGetOrCreate(p) \/ CallUpsert(p) \/ CallDelete(p)
       \/ ExistsCount(p) \/ ExistsCacheSet(p) \/ GenPick(p) \/ GenCacheSet(p)
       \/ GetOrCreateStep(p) \/ UpsertStep(p) \/ DeleteDb(p) \/ DeleteCacheClear(p)
       \/ Return(p)

SpecGen == Init /\ [][NextGen]_vars

\* C14: when generateUniqueCode returns a code from its retry loop (not the
\* timestamp fallback), no record with that code was in the store at the time
\* its existence check was answered, whatever codeExists, getOrCreateClipboard,
\* upsertClipboard and delete operations came before.
C14_GeneratedCodeUnused ==
    \A p \in Procs :
       (proc[p].op = "generate" /\ proc[p].status = "ok" /\ proc[p].ret[1] # FallbackCode)
          => ~proc[p].missed

(***************************************************************************)
(* The clipboard page and its TextEditor: autosave                         *)
(***************************************************************************)
\* the code of the page, and the texts the user can bring the textarea to
EdCode == SweepCode
EdContents == {EmptyContent, Text("a", 1), Text("b", 2)}

\* the editor as it is mounted with initialContent c
MountedEditor(c) ==
    [mounted |-> TRUE,
     initial |-> c,           \* clipboardData.content of the page
     content |-> c,
     lastSaved |-> c,         \* lastSavedContentRef.current
     hasUnsaved |-> FALSE,
     saveStatus |-> "idle",
     pending |-> << >>,       \* lastArgs of the debounced save whose timer runs
     flights |-> {},          \* the PUT requests not yet answered
     idleTimers |-> 0,        \* setTimeout(() => setSaveStatus('idle'), 2000) not yet run
     acts |-> 0,              \* user actions so far
     failed |-> FALSE]        \* a save request has failed

\* the effect on [initialContent, content]: a content that differs from the
\* page's is replaced by it
InitEffect(e) ==
    IF e.initial # e.content
    THEN [e EXCEPT !.content = e.initial, !.lastSaved = e.initial, !.hasUnsaved = FALSE]
    ELSE e

\* saveContent(c) up to its await, called where the handler has brought the
\* editor to e: nothing when c is the last saved content, else the page's
\* handleSave sends PUT /api/clipboard/[code]
SaveContent(e, c) ==
    IF c = e.lastSaved
    THEN /\ ed' = InitEffect(e)
         /\ proc' = proc
    ELSE \E p \in Procs :
            /\ proc[p].pc = "idle"
            /\ ed' = InitEffect([e EXCEPT !.saveStatus = "saving",
                                          !.flights = @ \cup {p}])
            /\ LET body == [json |-> TRUE, content |-> ContentValue(c), text |-> c]
                   err == WriteValidationError("PUT", EdCode, body)
               IN IF err # NoErr
                  THEN proc' = [proc EXCEPT ![p] =
                          Thrown([IdleProc EXCEPT !.op = "upsert", !.method = "PUT",
                                                  !.code = EdCode, !.content = c], err)]
                  ELSE BeginUpsert(p, "PUT", EdCode, c)

OnlyEditor == UNCHANGED <<store, nextId, now, cacheVars, calls, clockSteps, cleanupVars,
                          schedVars, gcache, gret, codeIn, codeRes, db>>

UserCanAct == ed.mounted /\ ed.acts < MaxEdits

\* handleContentChange: the user changes the text of the enabled textarea to c
EditorType(c) ==
    /\ UserCanAct
    /\ ed.saveStatus # "saving"
    /\ c # ed.content
    /\ LET hasChanges == c # ed.lastSaved
       IN ed' = InitEffect([ed EXCEPT !.content = c, !.hasUnsaved = hasChanges,
                                      !.pending = IF hasChanges THEN <<c>> ELSE @,
                                      !.acts = @ + 1])
    /\ proc' = proc
    /\ OnlyEditor

\* the clear button, confirmed
EditorClear ==
    /\ UserCanAct
    /\ ed' = InitEffect([ed EXCEPT !.content = EmptyContent, !.hasUnsaved = TRUE,
                                   !.pending = <<EmptyContent>>, !.acts = @ + 1])
    /\ proc' = proc
    /\ OnlyEditor

\* handleManualSave, by Ctrl+S in the enabled textarea or by the save button
EditorManualSave ==
    /\ UserCanAct
    /\ ed.saveStatus # "saving"
    /\ SaveContent([ed EXCEPT !.pending = << >>, !.acts = @ + 1], ed.content)
    /\ OnlyEditor

\* the timer of the debounced save expires: saveContent(lastArgs)
DebounceFire ==
    /\ ed.mounted
    /\ ed.pending # << >>
    /\ SaveContent([ed EXCEPT !.pending = << >>], ed.pending[1])
    /\ OnlyEditor

\* the answer of request p arrives: handleSave sets clipboardData (or throws),
\* saveContent goes on after its await
EditorSaveDone(p) ==
    /\ ed.mounted
    /\ p \in ed.flights
    /\ proc[p].pc = "done"
    /\ ed' = IF proc[p].status = "ok"
             THEN InitEffect([ed EXCEPT !.initial = proc[p].ret[1].content,
                                        !.saveStatus = "saved",
                                        !.hasUnsaved = FALSE,
                                        !.lastSaved = proc[p].content,
                                        !.idleTimers = @ + 1,
                                        !.flights = @ \ {p}])
             ELSE [ed EXCEPT !.saveStatus = "error", !.hasUnsaved = TRUE,
                             !.failed = TRUE, !.flights = @ \ {p}]
    /\ proc' = [proc EXCEPT ![p] = IdleProc]
    /\ OnlyEditor

\* two seconds after a save has succeeded
IdleTimerFire ==
    /\ ed.mounted
    /\ ed.idleTimers > 0
    /\ ed' = [ed EXCEPT !.saveStatus = "idle", !.idleTimers = @ - 1]
    /\ proc' = proc
    /\ OnlyEditor

\* the page has loaded the record of its code
InitEditor ==
    /\ now = 0
    /\ \E c \in {EmptyContent, Text("a", 1)} :
          /\ store = {[id |-> 1, code |-> EdCode, content |-> c,
                       updatedAt |-> 0, lastAccessed |-> 0]}
          /\ ed = MountedEditor(c)
    /\ nextId = 2
    /\ clipboardCache = << >>
    /\ codeExistsCache = << >>
    /\ proc = [p \in Procs |-> IdleProc]
    /\ calls = 0
    /\ clockSteps = 0
    /\ InitCleanup /\ InitSched
    /\ gcache = NoCache
    /\ gret = NoCall
    /\ codeIn = << >>
    /\ codeRes = NoResult
    /\ db = NoDebounce

EditorStep ==
    \/ DebounceFire
    \/ IdleTimerFire
    \/ \E p \in Procs : UpsertStep(p) \/ EditorSaveDone(p)

NextEditor ==
    \/ \E c \in EdContents : EditorType(c)
    \/ EditorClear
    \/ EditorManualSave
    \/ EditorStep
    \/ \E p \in Procs : StoreFails(p)

\* timers expire, the server answers every request
SpecEditor == InitEditor /\ [][NextEditor]_vars /\ WF_vars(EditorStep)

ServerContent == {r.content : r \in RowsOf(EdCode)}

Synced == ServerContent = {ed.content} /\ ~ed.hasUnsaved

\* C15: with autosave on and every save request succeeding, once the user stops
\* editing, eventually the content stored on the server for the code equals the
\* editor's content and the editor reports no unsaved changes, in whatever order
\* the requests in flight are processed and answered.
C15_AutosaveConverges == <>(ed.failed) \/ <>[]Synced

\* the run is at a call of deleteClipboards
AtDelete(c) == c.pc \in {"age_delete", "size_delete", "count_delete"}

\* C16: a cleanup run with dryRun=true never calls deleteClipboards and no step
\* of it, from its start to its return, changes the records of the store or
\* their contents, whatever the options.
C16_DryRunLeavesStore ==
    /\ [](cl[1].opts.dryRun => ~AtDelete(cl[1]))
    /\ [][(cl'[1].opts.dryRun /\ cl'[1].pc # "idle") => store' = store]_vars

\* a dry run has returned and reports records it would have deleted
C16_Witness ==
    /\ cl[1].pc = "done"
    /\ cl[1].opts.dryRun
    /\ cl[1].result.deletedCount > 0
    /\ store # {}

\* the step in which updateClipboard call p is decided: it throws, or it goes
\* on to its write
UpdateDecided(p) ==
    /\ proc'[p].op = "update"
    /\ proc[p].pc \in {"idle", "up_find"}
    /\ proc'[p].pc \in {"done", "up_write"}

FailsWith(pr, code) == pr.pc = "done" /\ pr.status = "error" /\ pr.err = SvcErr(code)

\* what the decision of call p must be
UpdatePrecondition(p) ==
    LET pr == proc'[p]
        rows == RowsOf(pr.code)
    IN /\ rows = {} => FailsWith(pr, "NOT_FOUND") /\ store' = store
       /\ \A r \in rows :
             (pr.version # << >> /\ pr.version[1] # r.updatedAt)
                => FailsWith(pr, "CONFLICT") /\ store' = store

\* an updateClipboard that failed with NOT_FOUND or CONFLICT made no write
FailedUpdateWroteNothing ==
    \A p \in Procs :
       (proc[p].op = "update"
          /\ (FailsWith(proc[p], "NOT_FOUND") \/ FailsWith(proc[p], "CONFLICT")))
       => ~proc[p].wrote

\* C17, as stated: an updateClipboard for a code with no record fails with
\* NOT_FOUND and creates no record, one with a version that differs from the
\* record's updatedAt fails with CONFLICT and leaves the record as it is.
C17_UpdatePrecondition ==
    /\ []FailedUpdateWroteNothing
    /\ [][\A p \in Procs : UpdateDecided(p) => UpdatePrecondition(p)]_vars

\* C17, amended: the same for an updateClipboard whose content is within the
\* size limit; validateContent runs first and rejects a larger content with
\* CONTENT_TOO_LARGE whatever the store holds.
C17_UpdatePreconditionForValidContent ==
    /\ []FailedUpdateWroteNothing
    /\ [][\A p \in Procs :
            (UpdateDecided(p) /\ ~ContentTooLarge(proc'[p].content))
               => UpdatePrecondition(p)]_vars

\* one call has failed with CONFLICT on a record whose content it would have
\* changed, another with NOT_FOUND on a code without a record
C17_Witness ==
    \E p, q \in Procs :
       /\ proc[p].op = "update" /\ FailsWith(proc[p], "CONFLICT")
       /\ \E r \in RowsOf(proc[p].code) : r.content # proc[p].content
       /\ proc[q].op = "update" /\ FailsWith(proc[q], "NOT_FOUND")
       /\ RowsOf(proc[q].code) = {}

\* a step of set(key, ...) for a key not in the cache, at capacity
SetOfNewKeyAtCapacity ==
    /\ gret'.op = "set"
    /\ gcache' # gcache
    /\ gret'.key \notin CacheKeys(gcache.entries)
    /\ Len(gcache.entries) = gcache.maxSize

\* the entry inserted earliest is gone, the others stay in order before the new one
EvictsOldestOnly ==
    /\ Len(gcache'.entries) = Len(gcache.entries)
    /\ SubSeq(gcache'.entries, 1, Len(gcache.entries) - 1) = Tail(gcache.entries)
    /\ gcache'.entries[Len(gcache.entries)].key = gret'.key

\* C18: in every reachable state a CacheService holds at most maxSize entries,
\* and a set of a key not yet present, made at capacity, evicts exactly one
\* entry, the one inserted earliest.
C18_CapacityBound ==
    /\ [](Len(gcache.entries) <= gcache.maxSize)
    /\ [][SetOfNewKeyAtCapacity => EvictsOldestOnly]_vars

\* a scheduled cleanup execution begins
ScheduledBegins ==
    \E e \in Runs : /\ exec[e].pc = "idle"
                     /\ exec'[e].pc = "cleanup"
                     /\ exec'[e].type = "scheduled"

\* C19: getStatus().isScheduled is true exactly when an interval timer is
\* active; there is never more than one timer; a start with enabled=false or
\* while already scheduled creates no timer; no scheduled execution begins
\* while isScheduled is false (after stop() and before the next successful
\* start).
C19_ScheduledIffTimer ==
    /\ [](getStatus.isScheduled <=> sched.timers # {})
    /\ [](Cardinality(sched.timers) <= 1)
    /\ [][/\ ((sched'.console = "disabled" /\ sched' # sched)
                  => sched'.timers = sched.timers)
           /\ (sched.timers # {} => sched'.timers \subseteq sched.timers)
           /\ (ScheduledBegins => getStatus.isScheduled)]_vars

\* the scheduler has logged an execution, was stopped and started again, and a
\* further start has been refused
C19_Witness ==
    /\ sched.console = "already scheduled"
    /\ Cardinality(sched.timers) = 1
    /\ getStatus.isScheduled
    /\ \E i \in 1..Len(sched.logs) : sched.logs[i].type = "scheduled"

\* the limits getLogs is called with: none, 0, 1, 2
LogLimits == {<< >>, <<0>>, <<1>>, <<2>>}

\* execution e returns in this step
ExecutionEnds(e) == exec[e].pc = "cleanup" /\ exec'[e].pc = "idle"

\* the step appends exactly one entry, of the type of execution e
AppendsOneEntry(e) ==
    /\ Len(sched'.logs) = Len(sched.logs) + 1
    /\ SubSeq(sched'.logs, 1, Len(sched.logs)) = sched.logs
    /\ sched'.logs[Len(sched'.logs)].type = exec[e].type
    /\ sched'.logs[Len(sched'.logs)].result = cl[e].result

\* q holds the newest entries of the log, the newest first
NewestFirst(q) ==
    /\ Len(q) <= Len(sched.logs)
    /\ \A i \in 1..Len(q) : q[i] = sched.logs[Len(sched.logs) - i + 1]

\* a log of k entries that gets one more keeps the newest MaxLogs of them
AddLogKeepsNewest(k) ==
    LET l == [i \in 1..k |-> i]
        m == addLog(l, k + 1)
    IN /\ Len(m) = Min(k + 1, MaxLogs)
       /\ \A i \in 1..Len(m) : m[i] = k + 1 - Len(m) + i

\* C20: every cleanup execution that is not skipped, manual or scheduled, with
\* or without errors, appends exactly one log entry, and nothing else adds
\* one; the log never holds more than 100 entries and keeps the most recent;
\* getLogs returns them newest first, all of them without a limit and the
\* first n of them with a limit n.
C20_OneLogPerExecution ==
    /\ [][/\ (\A e \in Runs : ExecutionEnds(e) => AppendsOneEntry(e))
           /\ ((\A e \in Runs : ~ExecutionEnds(e))
                 => (sched'.logs = sched.logs \/ sched'.logs = << >>))]_vars
    /\ [](Len(sched.logs) <= MaxLogs)
    /\ [](\A k \in {MaxLogs - 2, MaxLogs - 1, MaxLogs} : AddLogKeepsNewest(k))
    /\ [](\A limit \in LogLimits :
            /\ NewestFirst(getLogs(limit))
            /\ Len(getLogs(limit)) = IF limit = << >> THEN Len(sched.logs)
                                     ELSE Min(limit[1], Len(sched.logs)))

(***************************************************************************)
(* updateClipboard against the writes of other clients                     *)
(***************************************************************************)
\* another client of the database upserts the record of the code, a moment
\* later than every write before it
OtherWrite ==
    /\ clockSteps < MaxOtherWrites
    /\ now' = now + 1
    /\ clockSteps' = clockSteps + 1
    /\ \E content \in {Text("a", 1), Text("b", 2)} :
          IF RowsOf(SweepCode) = {}
          THEN /\ store' = store \cup {[NewRow(SweepCode, content) EXCEPT
                                            !.updatedAt = now', !.lastAccessed = now']}
               /\ nextId' = nextId + 1
          ELSE \E r \in RowsOf(SweepCode) :
                 /\ store' = ReplaceRow(r, [r EXCEPT !.content = content,
                                                     !.updatedAt = now',
                                                     !.lastAccessed = now'])
                 /\ nextId' = nextId
    /\ UNCHANGED <<cacheVars, proc, calls, cleanupVars, schedVars, unitVars>>

NextRetry ==
    \/ \E p \in Procs : \/ (CallUpdate(p) /\ proc'[p].code = SweepCode)
                          \/ UpdateFind(p) \/ UpdateWrite(p) \/ UpdateCacheSet(p)
                          \/ Return(p)
    \/ OtherWrite

SpecRetry == Init /\ [][NextRetry]_vars

\* the codes of ClipboardServiceError
ServiceErrorCodes ==
    {"NOT_FOUND", "CONFLICT", "VALIDATION_ERROR", "DATABASE_ERROR", "CONTENT_TOO_LARGE"}

\* the guarded write of call p finds no row with the updatedAt it has read
WriteLost(p) ==
    /\ proc[p].pc = "up_write"
    /\ proc'[p] # proc[p]
    /\ \A r \in RowsOf(proc[p].code) : r.updatedAt # proc[p].existing[1].updatedAt

\* C21: updateClipboard makes at most retryAttempts attempts; an attempt whose
\* guarded write is lost to a concurrent modification is retried, and when the
\* last one is lost the call fails with CONFLICT; every error it throws has one
\* of the codes of ClipboardServiceError.
C21_RetryThenConflict ==
    /\ [](\A p \in Procs : proc[p].op = "update" => proc[p].attempt < RetryAttempts)
    /\ [](\A p \in Procs :
            (proc[p].op = "update" /\ proc[p].status = "error")
               => (proc[p].err.by = "service" /\ proc[p].err.code \in ServiceErrorCodes))
    /\ [][\A p \in Procs :
            WriteLost(p) =>
               IF proc[p].attempt < RetryAttempts - 1
               THEN proc'[p].pc = "up_find" /\ proc'[p].attempt = proc[p].attempt + 1
               ELSE FailsWith(proc'[p], "CONFLICT")]_vars

\* the phase a run is in
PhaseOf(pc) ==
    CASE pc = "stats0" -> "cleanup"
      [] pc \in {"age_fetch", "age_delete"} -> "age"
      [] pc \in {"size_stats", "size_fetch", "size_delete"} -> "size"
      [] pc \in {"count_stats", "count_fetch", "count_delete"} -> "count"
      [] OTHER -> "none"

\* where a run with options o is after the given phase has ended
PcAfterPhase(phase, o) ==
    IF phase = "age" /\ o.maxTotalSize > 0 THEN "size_stats"
    ELSE IF phase \in {"age", "size"} /\ o.maxCount > 0 THEN "count_stats"
    ELSE "done"

\* a store call of run 1 fails in this step
RunStoreFailure == Len(cl'[1].result.errors) > Len(cl[1].result.errors)

\* C22: cleanup never rejects: a store call that fails inside the age, size or
\* count phase adds one message to result.errors, keeps what was counted so
\* far, and the run goes on with the remaining phases; a failure of the initial
\* statistics query ends the run with deletedCount 0, freedSpace 0 and one
\* error message.
C22_CleanupNeverRejects ==
    [][RunStoreFailure =>
         LET c == cl[1]
             d == cl'[1]
         IN /\ d.result.errors = Append(c.result.errors, PhaseOf(c.pc))
            /\ d.result.deletedCount = c.result.deletedCount
            /\ d.result.freedSpace = c.result.freedSpace
            /\ store' = store
            /\ IF PhaseOf(c.pc) = "cleanup"
               THEN /\ d.pc = "done"
                    /\ d.result.deletedCount = 0 /\ d.result.freedSpace = 0
                    /\ Len(d.result.errors) = 1
               ELSE d.pc = PcAfterPhase(PhaseOf(c.pc), c.opts)]_vars

\* a run in which the age phase failed after deleting, and a later phase failed
\* too, has returned
C22_Witness ==
    /\ cl[1].pc = "done"
    /\ Len(cl[1].result.errors) = 2
    /\ cl[1].result.errors[1] = "age"
    /\ cl[1].result.deletedCount > 0

(***************************************************************************)
(* performance-utils: debounce(func, delay, {leading, trailing: true,      *)
(* maxWait}).  Times are in units of half the delay; the arguments of a     *)
(* call are its number; a timer is its id and the time it is due.          *)
(***************************************************************************)
DebDelay == 2
DebMaxWaits == {<< >>, <<3 * DebDelay>>}

NewDebounce(leading, maxWait) ==
    [made |-> TRUE, leading |-> leading, maxWait |-> maxWait,
     timeoutId |-> 0,          \* 0 is null
     timers |-> {},            \* setTimeout(timerExpired, ...) not yet run or cleared
     nextTimer |-> 1,
     lastCallTime |-> 0, lastInvokeTime |-> 0,
     lastArgs |-> << >>,       \* << >> is undefined
     calls |-> 0,              \* calls of the debounced function so far
     invoked |-> << >>,        \* the calls func was invoked with, in order
     excused |-> 0]            \* the latest call when cancel() was last called

invokeFunc(d, time) ==
    [d EXCEPT !.invoked = Append(@, d.lastArgs[1]), !.lastArgs = << >>,
              !.lastInvokeTime = time]

\* timeoutId = setTimeout(timerExpired, wait)
SetTimer(d, wait, time) ==
    [d EXCEPT !.timers = @ \cup {[id |-> d.nextTimer, due |-> time + wait]},
              !.timeoutId = d.nextTimer, !.nextTimer = @ + 1]

leadingEdge(d, time) ==
    LET e == SetTimer([d EXCEPT !.lastInvokeTime = time], DebDelay, time)
    IN IF e.leading THEN invokeFunc(e, time) ELSE e

remainingWait(d, time) ==
    LET timeWaiting == DebDelay - (time - d.lastCallTime)
    IN IF d.maxWait # << >>
       THEN Min(timeWaiting, d.maxWait[1] - (time - d.lastInvokeTime))
       ELSE timeWaiting

shouldInvoke(d, time) ==
    \/ d.lastCallTime = 0
    \/ time - d.lastCallTime >= DebDelay
    \/ time - d.lastCallTime < 0
    \/ (d.maxWait # << >> /\ time - d.lastInvokeTime >= d.maxWait[1])

\* a trailing edge that forgets the pending call
trailingEdgeDropping(d, time) == [d EXCEPT !.timeoutId = 0, !.lastArgs = << >>]

trailingEdge(d, time) ==
    LET e == [d EXCEPT !.timeoutId = 0]
    IN IF e.lastArgs # << >> THEN invokeFunc(e, time) ELSE e

timerExpired(d, time) ==
    IF shouldInvoke(d, time) THEN trailingEdge(d, time)
    ELSE SetTimer(d, remainingWait(d, time), time)

debounced(d, time) ==
    LET isInvoking == shouldInvoke(d, time)
        e == [d EXCEPT !.calls = @ + 1, !.lastArgs = <<d.calls + 1>>,
                       !.lastCallTime = time]
    IN IF isInvoking /\ e.timeoutId = 0 THEN leadingEdge(e, time)
       ELSE IF isInvoking /\ e.maxWait # << >>
       THEN invokeFunc(SetTimer(e, DebDelay, time), time)
       ELSE IF e.timeoutId = 0 THEN SetTimer(e, DebDelay, time)
       ELSE e

\* cancel(): clearTimeout(timeoutId) and the reset of the closure
cancel(d) ==
    [d EXCEPT !.timers = {x \in @ : x.id # d.timeoutId},
              !.lastInvokeTime = 0, !.lastCallTime = 0, !.lastArgs = << >>,
              !.timeoutId = 0, !.excused = d.calls]

flush(d, time) == IF d.timeoutId = 0 THEN d ELSE trailingEdge(d, time)

OnlyDebounce == UNCHANGED <<store, nextId, cacheVars, proc, calls, clockSteps, cleanupVars,
                            schedVars, gcache, gret, codeIn, codeRes, ed>>

\* the debounced function is called
DebCall ==
    /\ db.calls < MaxDebCalls
    /\ db' = debounced(db, now)
    /\ now' = now
    /\ OnlyDebounce

\* the timer that is due first runs, at its time or later
DebTimer ==
    /\ \E tm \in db.timers :
          /\ \A x \in db.timers : tm.due <= x.due
          /\ now' = IF now < tm.due THEN tm.due ELSE now
          /\ db' = timerExpired([db EXCEPT !.timers = @ \ {tm}], now')
    /\ OnlyDebounce

DebCancel ==
    /\ db' = cancel(db)
    /\ now' = now
    /\ OnlyDebounce

DebFlush ==
    /\ db' = flush(db, now)
    /\ now' = now
    /\ OnlyDebounce

\* time passes
DebTick ==
    /\ now < MaxDebTime
    /\ now' = now + 1
    /\ db' = db
    /\ OnlyDebounce

InitDebounce ==
    /\ store = {}
    /\ nextId = 1
    /\ now = 1
    /\ clipboardCache = << >>
    /\ codeExistsCache = << >>
    /\ proc = [p \in Procs |-> IdleProc]
    /\ calls = 0
    /\ clockSteps = 0
    /\ InitCleanup /\ InitSched
    /\ gcache = NoCache
    /\ gret = NoCall
    /\ codeIn = << >>
    /\ codeRes = NoResult
    /\ ed = NoEditor
    /\ \E leading \in BOOLEAN, maxWait \in DebMaxWaits : db = NewDebounce(leading, maxWait)

NextDebounce == DebCall \/ DebTimer \/ DebCancel \/ DebFlush \/ DebTick

\* every timer that was set and not cleared runs
SpecDebounce == InitDebounce /\ [][NextDebounce]_vars /\ WF_vars(DebTimer)

Invoked == {db.invoked[i] : i \in 1..Len(db.invoked)}

\* the latest call has been passed to func, or cancel() was called after it
LatestSettled == db.calls = 0 \/ db.calls \in Invoked \/ db.excused = db.calls

\* C23: for a function debounced with trailing=true, with or without maxWait,
\* after calls stop func is eventually invoked with the arguments of the latest
\* call, unless they were already passed to func or cancel() was called, and
\* func is never invoked twice for the same call.
C23_LastCallDelivered ==
    /\ <>[]LatestSettled
    /\ [](\A i, j \in 1..Len(db.invoked) : db.invoked[i] = db.invoked[j] => i = j)

\* a burst of three calls under maxWait: the first two were superseded, the
\* third was delivered by the timer
C23_Witness ==
    /\ db.maxWait # << >>
    /\ db.calls = 3
    /\ db.invoked = <<3>>
    /\ db.excused = 0
    /\ db.timers = {}

\* the codes of the entries of cache c that have not expired
Unexpired(c) == {c[i].key : i \in {j \in 1..Len(c) : ~CacheExpired(c[j], now)}}

\* the codes the caches vouch for
VouchedCodes ==
    Unexpired(clipboardCache)
       \cup {codeExistsCache[i].key :
               i \in {j \in 1..Len(codeExistsCache) :
                        /\ ~CacheExpired(codeExistsCache[j], now)
                        /\ codeExistsCache[j].data = TRUE}}

\* C24: whenever the clipboard cache holds an unexpired entry for a code, or the
\* existence cache holds true for it, the store holds a record of that code,
\* also after the retention sweep has deleted records.
C24_CachedCodesExist == \A code \in VouchedCodes : RowsOf(code) # {}

(***************************************************************************)
(* Reads and writes of one code on the optimized service                   *)
(***************************************************************************)
\* concurrent getOrCreateClipboard and upsertClipboard calls, all for one code
NextReadWrite ==
    \/ \E p \in Procs : \/ (CallGetOrCreate(p) /\ proc'[p].code = SweepCode)
                          \/ (CallUpsert(p) /\ proc'[p].code = SweepCode)
                          \/ GetOrCreateStep(p) \/ UpsertStep(p) \/ Return(p)
    \/ Tick

SpecReadWrite == Init /\ [][NextReadWrite]_vars

\* no call is in flight: every call has returned and no deferred access-time
\* update is pending
NothingInFlight == \A p \in Procs : proc[p].pc = "idle"

\* the contents the clipboard cache would answer a read of code with
CachedContents(code) ==
    {clipboardCache[i].data.content :
        i \in {j \in 1..Len(clipboardCache) :
                 /\ clipboardCache[j].key = code
                 /\ ~CacheExpired(clipboardCache[j], now)}}

\* C25: under any interleaving of concurrent getOrCreateClipboard and
\* upsertClipboard calls for one code, once no operation on the code is in
\* flight, an unexpired clipboard-cache entry for the code has the content of
\* the store's record, so a read after a completed write returns what was
\* written.
C25_CacheAgreesWithStore ==
    NothingInFlight =>
       \A content \in CachedContents(SweepCode) :
          \E r \in RowsOf(SweepCode) : r.content = content

(***************************************************************************)
(* A cleanup run over old records while the service reads and writes one   *)
(* of them                                                                 *)
(***************************************************************************)
\* the table holds two records last accessed two days ago; the calls are about
\* the first
InitTouch ==
    /\ now = 2 * SecPerDay
    /\ store = {[id |-> 1, code |-> SweepCode, content |-> Text("a", 1),
                 updatedAt |-> 0, lastAccessed |-> 0],
                [id |-> 2, code |-> <<98>>, content |-> Text("b", 2),
                 updatedAt |-> 0, lastAccessed |-> 0]}
    /\ nextId = 3
    /\ clipboardCache = << >>
    /\ codeExistsCache = << >>
    /\ proc = [p \in Procs |-> IdleProc]
    /\ calls = 0
    /\ clockSteps = 0
    /\ InitCleanup /\ InitSched /\ InitUnit

\* reads and writes of the record while cleanup run 1 is going on
NextTouch ==
    \/ \E p \in Procs :
          \/ calls < SweepCalls /\ CallGetOrCreate(p) /\ proc'[p].code = SweepCode
          \/ calls < SweepCalls /\ CallUpsert(p) /\ proc'[p].code = SweepCode
          \/ GetOrCreateStep(p) \/ UpsertStep(p) \/ Return(p)
    \/ (\E o \in SweepOptionSets : StartCleanup(1, o))
    \/ CleanupStep(1)

SpecTouch == InitTouch /\ [][NextTouch]_vars

\* C26: the age phase never deletes a record whose lastAccessed, at the moment
\* of its deletion, is at or after the cutoff: a record read or written between
\* the fetch of a batch and the bulk delete of the batch survives.
C26_AgePhaseSparesTouched ==
    \A r \in cl[1].removed.age : r.lastAccessed < cl[1].cutoff

(***************************************************************************)
(* One cleanup run whose store calls all succeed and whose awaits all      *)
(* resume                                                                  *)
(***************************************************************************)
\* a step of the run after a store call that succeeded
CleanupProgress(r) ==
    \/ CleanupInitialStats(r)
    \/ CleanupAgeFetch(r) \/ CleanupAgeDelete(r)
    \/ CleanupSizeStats(r) \/ CleanupSizeFetch(r) \/ CleanupSizeDelete(r)
    \/ CleanupCountStats(r) \/ CleanupCountFetch(r) \/ CleanupCountDelete(r)

NextTerminate == (\E o \in CleanupOptionSets : StartCleanup(1, o)) \/ CleanupProgress(1)

SpecTerminate == InitCleanupRun /\ [][NextTerminate]_vars /\ WF_vars(CleanupProgress(1))

NextCompare ==
    \/ \E o \in CleanupOptionSets : o.dryRun /\ StartCleanup(2, o)
    \/ CleanupProgress(2)
    \/ (cl[2].pc = "done" /\ StartCleanup(1, [cl[2].opts EXCEPT !.dryRun = FALSE]))
    \/ CleanupProgress(1)

SpecCompare == InitCleanupRun /\ [][NextCompare]_vars

\* the records run r has removed
RemovedBy(r) == cl[r].removed.age \cup cl[r].removed.size \cup cl[r].removed.count

\* both runs have returned
BothRunsDone == cl[1].pc = "done" /\ cl[2].pc = "done"

\* the result of the real run counts what the run removed
CountsWhatItRemoved ==
    /\ cl[1].result.deletedCount = Cardinality(RemovedBy(1))
    /\ cl[1].result.freedSpace = SumSizes(RemovedBy(1))

\* C28: for the same table and the same options, the run with dryRun=true
\* reports the deletedCount and freedSpace that the run with dryRun=false
\* produces, and the latter's deletedCount is the number of records it removed
\* and its freedSpace the sum of their content lengths.
C28_DryRunPredictsRealRun ==
    BothRunsDone =>
       /\ cl[2].result.deletedCount = cl[1].result.deletedCount
       /\ cl[2].result.freedSpace = cl[1].result.freedSpace
       /\ CountsWhatItRemoved

\* the step ends a scheduled execution
ScheduledEnds ==
    \E e \in Runs : /\ exec[e].pc # "idle" /\ exec[e].type = "scheduled"
                     /\ exec'[e].pc = "idle"

\* the step is a tick that is skipped
TickSkipped == sched'.console = "skipped" /\ sched.console # "skipped"

\* C29: after every scheduled execution ends, by success or with errors, the
\* running flag is false again: the flag is set exactly while a scheduled
\* execution is in progress, so a tick is skipped only while another scheduled
\* execution is in progress and every tick that fires after the previous
\* execution has ended runs cleanup.
C29_FlagFollowsExecution ==
    /\ [](sched.isRunning <=> ScheduledInProgress # {})
    /\ [][(ScheduledEnds => ~sched'.isRunning)
            /\ (TickSkipped => ScheduledInProgress # {})]_vars

\* a scheduled execution has ended with errors and the next tick has begun
\* another one
C29_Witness ==
    /\ Len(sched.logs) = 1
    /\ sched.logs[1].type = "scheduled"
    /\ sched.logs[1].result.errors # << >>
    /\ sched.console = "scheduled begins"
    /\ sched.isRunning

\* C30: no two cleanup executions of one ScheduledCleanupImpl, scheduled or
\* manual, are in progress at the same time, and getStatus().isRunning is true
\* whenever one of them is executing.
C30_OneExecutionFlagged ==
    /\ Cardinality(InProgress) <= 1
    /\ (InProgress # {} => getStatus.isRunning)

====
